---- MODULE Spec2Model ----
(***************************************************************************)
(* A model of the execution engine of the graph DSL: the graph data types  *)
(* (graph.rs), the eager interpreter (execution.rs) and the lazy           *)
(* interpreter (lazy_execution.rs).                                        *)
(*                                                                         *)
(* Indices are 0-based as in the source; a TLA+ sequence s holds the       *)
(* element with index i at s[i + 1].                                       *)
(***************************************************************************)
EXTENDS Integers, Sequences, FiniteSets, TLC

(***************************************************************************)
(* Bounds of the model.                                                    *)
(***************************************************************************)
\* Statements a File call of Spec executes in its matches.
MaxStmts == 4

(***************************************************************************)
(* graph.rs: Value                                                         *)
(***************************************************************************)
Null == <<"Null", 0>>
Boolean(b) == <<"Boolean", b>>
Integer(n) == <<"Integer", n>>
String(s) == <<"String", s>>
List(vs) == <<"List", vs>>
SyntaxNode(ref) == <<"SyntaxNode", ref>>
GraphNode(ref) == <<"GraphNode", ref>>

(***************************************************************************)
(* graph.rs: edges and attributes.  outgoing_edges is a sequence of        *)
(* <<sink, edge>> and Attributes.values a sequence of <<name, value>>.     *)
(***************************************************************************)
Attributes_new == [values |-> <<>>]
Edge_new == [attributes |-> Attributes_new]
GraphNode_new == [outgoing_edges |-> <<>>, attributes |-> Attributes_new]
Graph_new == [syntax_nodes |-> <<>>, graph_nodes |-> <<>>]

\* slice::binary_search_by_key over entries keyed by their first component:
\* Ok(index) is [found |-> TRUE, index], Err(index) is [found |-> FALSE, index].
RECURSIVE BinarySearchFrom(_, _, _, _)
BinarySearchFrom(entries, key, left, right) ==
    IF left >= right
    THEN [found |-> FALSE, index |-> left]
    ELSE LET mid == left + ((right - left) \div 2)
             k == entries[mid + 1][1]
         IN  IF k < key THEN BinarySearchFrom(entries, key, mid + 1, right)
             ELSE IF k > key THEN BinarySearchFrom(entries, key, left, mid)
             ELSE [found |-> TRUE, index |-> mid]

binary_search_by_key(entries, key) == BinarySearchFrom(entries, key, 0, Len(entries))

\* SmallVec::insert(index, element)
SmallVec_insert(vec, index, element) ==
    SubSeq(vec, 1, index) \o <<element>> \o SubSeq(vec, index + 1, Len(vec))

\* Mutant of GraphNode::add_edge: the new edge is pushed at the end.
GraphNode_add_edge_push(node, sink) ==
    LET r == binary_search_by_key(node.outgoing_edges, sink)
    IN  IF r.found
        THEN [ok |-> FALSE, node |-> node, index |-> r.index]
        ELSE [ok |-> TRUE,
              node |-> [node EXCEPT !.outgoing_edges = Append(@, <<sink, Edge_new>>)],
              index |-> Len(node.outgoing_edges)]

\* GraphNode::add_edge: ok is TRUE for Ok(edge) and FALSE for Err(edge).
GraphNode_add_edge(node, sink) ==
    LET r == binary_search_by_key(node.outgoing_edges, sink)
    IN  IF r.found
        THEN [ok |-> FALSE, node |-> node, index |-> r.index]
        ELSE [ok |-> TRUE,
              node |-> [node EXCEPT !.outgoing_edges =
                            SmallVec_insert(@, r.index, <<sink, Edge_new>>)],
              index |-> r.index]

\* Mutant of GraphNode::get_edge_mut: the insertion point of a failed search
\* is taken for the edge when it lies in the list.
GraphNode_get_edge_mut_nearest(node, sink) ==
    LET r == binary_search_by_key(node.outgoing_edges, sink)
    IN  [found |-> r.index < Len(node.outgoing_edges), index |-> r.index]

\* GraphNode::get_edge_mut: the index of the edge to sink, if it exists.
GraphNode_get_edge_mut(node, sink) == binary_search_by_key(node.outgoing_edges, sink)

\* Mutant of Attributes::add: the new attribute is pushed at the end.
Attributes_add_push(attributes, name, value) ==
    LET r == binary_search_by_key(attributes.values, name)
    IN  IF r.found
        THEN [ok |-> FALSE,
              attributes |-> [attributes EXCEPT !.values[r.index + 1] = <<name, value>>]]
        ELSE [ok |-> TRUE,
              attributes |-> [attributes EXCEPT !.values = Append(@, <<name, value>>)]]

\* Mutant of Attributes::add: a name already present keeps its value.
Attributes_add_keep(attributes, name, value) ==
    LET r == binary_search_by_key(attributes.values, name)
    IN  IF r.found
        THEN [ok |-> FALSE, attributes |-> attributes]
        ELSE [ok |-> TRUE,
              attributes |-> [attributes EXCEPT !.values =
                                  SmallVec_insert(@, r.index, <<name, value>>)]]

\* Attributes::add: ok is TRUE for Ok(()) and FALSE for Err(()).
Attributes_add(attributes, name, value) ==
    LET r == binary_search_by_key(attributes.values, name)
    IN  IF r.found
        THEN [ok |-> FALSE,
              attributes |-> [attributes EXCEPT !.values[r.index + 1] = <<name, value>>]]
        ELSE [ok |-> TRUE,
              attributes |-> [attributes EXCEPT !.values =
                                  SmallVec_insert(@, r.index, <<name, value>>)]]

\* Attributes::get: Null stands for None only where the caller tests found.
Attributes_get(attributes, name) == binary_search_by_key(attributes.values, name)

\* Mutant of Graph::add_graph_node: the index is taken after the push.
Graph_add_graph_node_late(graph) ==
    LET pushed == [graph EXCEPT !.graph_nodes = Append(@, GraphNode_new)]
    IN  [graph |-> pushed, ref |-> Len(pushed.graph_nodes)]

\* Graph::add_graph_node
Graph_add_graph_node(graph) ==
    LET index == Len(graph.graph_nodes)
    IN  [graph |-> [graph EXCEPT !.graph_nodes = Append(@, GraphNode_new)],
         ref |-> index]

\* The range of SyntaxNodeID.  The type is u32 and node.id() is a usize, of
\* 64 bits on the usual targets; the integers of the model checker have 32
\* bits themselves, so an id is written high * SyntaxNodeID_range + low and
\* the range stands for 2^32.
SyntaxNodeID_range == 1024

\* Graph::add_syntax_node: syntax_nodes maps a SyntaxNodeRef to the host node.
\* A host node is its id here; the cast `node.id() as SyntaxNodeID` keeps the
\* low word of the id, and HashMap::insert replaces the node stored under
\* the index.
Graph_add_syntax_node(graph, node) ==
    LET index == node % SyntaxNodeID_range
        old == graph.syntax_nodes
    IN  [graph |-> [graph EXCEPT !.syntax_nodes =
                        [r \in DOMAIN old \cup {index} |->
                            IF r = index THEN node ELSE old[r]]],
         ref |-> index]

(***************************************************************************)
(* variables.rs: VariableMap.  A map is a function from the names it binds *)
(* to [value, mutable]; locals is the stack of maps from the match's map   *)
(* (first) to the innermost nested map (last).                             *)
(***************************************************************************)
EmptyMap == [n \in {} |-> [value |-> Null, mutable |-> FALSE]]
VariableMap_new == <<EmptyMap>>

\* VariableMap::clear on the innermost map
VariableMap_clear(maps) == [maps EXCEPT ![Len(maps)] = EmptyMap]

\* Variables::get: the innermost binding of name; found is FALSE for None.
RECURSIVE VariableMap_get_from(_, _, _)
VariableMap_get_from(maps, name, depth) ==
    IF depth = 0 THEN [found |-> FALSE, value |-> Null]
    ELSE IF name \in DOMAIN maps[depth]
         THEN [found |-> TRUE, value |-> maps[depth][name].value]
         ELSE VariableMap_get_from(maps, name, depth - 1)

VariableMap_get(maps, name) == VariableMap_get_from(maps, name, Len(maps))

\* Variables::add into the innermost map: Err when it binds name already.
VariableMap_add(maps, name, value, mutable) ==
    LET top == maps[Len(maps)]
    IN  IF name \in DOMAIN top
        THEN [ok |-> FALSE, maps |-> maps]
        ELSE [ok |-> TRUE,
              maps |-> [maps EXCEPT ![Len(maps)] =
                           [n \in DOMAIN top \cup {name} |->
                               IF n = name THEN [value |-> value, mutable |-> mutable]
                               ELSE top[n]]]]

\* Variables::set: the innermost binding of name is overwritten if it is
\* mutable; Err when it is immutable or when no map binds name.
RECURSIVE VariableMap_set_from(_, _, _, _)
VariableMap_set_from(maps, name, value, depth) ==
    IF depth = 0 THEN [ok |-> FALSE, maps |-> maps]
    ELSE IF name \in DOMAIN maps[depth]
         THEN IF maps[depth][name].mutable
              THEN [ok |-> TRUE, maps |-> [maps EXCEPT ![depth][name].value = value]]
              ELSE [ok |-> FALSE, maps |-> maps]
         ELSE VariableMap_set_from(maps, name, value, depth - 1)

VariableMap_set(maps, name, value) == VariableMap_set_from(maps, name, value, Len(maps))

\* Globals::get
Globals_get(globals, name) ==
    IF name \in DOMAIN globals
    THEN [found |-> TRUE, value |-> globals[name]]
    ELSE [found |-> FALSE, value |-> Null]

(***************************************************************************)
(* The abstract syntax (ast.rs) as tagged tuples.                          *)
(***************************************************************************)
NullLiteral == <<"NullLiteral">>
TrueLiteral == <<"TrueLiteral">>
FalseLiteral == <<"FalseLiteral">>
IntegerConstant(value) == <<"IntegerConstant", value>>
StringConstant(value) == <<"StringConstant", value>>
UnscopedVariable(name) == <<"UnscopedVariable", name>>
ScopedVariable(scope, name) == <<"ScopedVariable", scope, name>>
Capture(index, quantifier) == <<"Capture", index, quantifier>>
Call(function, parameters) == <<"Call", function, parameters>>

CreateGraphNode(node) == <<"CreateGraphNode", node>>
DeclareImmutable(variable, value) == <<"DeclareImmutable", variable, value>>
DeclareMutable(variable, value) == <<"DeclareMutable", variable, value>>
Assign(variable, value) == <<"Assign", variable, value>>
ConditionSome(value) == <<"Some", value>>
ConditionNone(value) == <<"None", value>>
ConditionBool(value) == <<"Bool", value>>
IfArm(conditions, statements) == [conditions |-> conditions, statements |-> statements]
If(arms) == <<"If", arms>>
ListComprehension(elements) == <<"ListComprehension", elements>>
RegexCapture(match_index) == <<"RegexCapture", match_index>>
ScanArm(regex, statements) == [regex |-> regex, statements |-> statements]
Scan(value, arms) == <<"Scan", value, arms>>
ForIn(variable, value, statements) == <<"ForIn", variable, value, statements>>
CreateEdge(source, sink) == <<"CreateEdge", source, sink>>
AddGraphNodeAttribute(node, attributes) == <<"AddGraphNodeAttribute", node, attributes>>
AddEdgeAttribute(source, sink, attributes) ==
    <<"AddEdgeAttribute", source, sink, attributes>>
\* ast::Attribute
Attribute(name, value) == [name |-> name, value |-> value]

(***************************************************************************)
(* Results of the interpreter's functions: the context after the call, the *)
(* value returned, and err = "none" for Ok.  A function that fails keeps   *)
(* the mutations it made before failing.                                   *)
(***************************************************************************)
Ok(exec, value) == [exec |-> exec, value |-> value, err |-> "none"]
Err(exec, err) == [exec |-> exec, value |-> Null, err |-> err]

\* The `?` of Rust: an Err result is returned as it is, an Ok one goes on.
Try(r, Continue(_)) == IF r.err # "none" THEN r ELSE Continue(r)

(***************************************************************************)
(* functions.rs: the registry's call.  Of the standard library, `node`,    *)
(* which takes no argument and adds a graph node, `source-text`, which     *)
(* takes a syntax node and gives its text in the source, and `replace`,    *)
(* which takes three strings, are modelled.                                *)
(***************************************************************************)
\* The source: the text of an identifier of the tree.  As in the tests'
\* source, where `a` comes twice, two nodes may have the same text.
SourceText(node) == IF node % 2 = 1 THEN "a" ELSE "b"

\* Strings are over this alphabet; a string is taken apart into the
\* sequence of its characters and put together again.
Alphabet == {"a", "b"}

RECURSIVE Str(_)
Str(chars) == IF chars = <<>> THEN "" ELSE chars[1] \o Str(Tail(chars))
Chars(s) == CHOOSE chars \in [1 .. Len(s) -> Alphabet] : Str(chars) = s

\* Regex::replace_all for a pattern that is a literal: the occurrences of
\* pattern in text, leftmost first and not overlapping, become replacement;
\* the empty pattern matches before every character and at the end.
RECURSIVE replace_all(_, _, _)
replace_all(text, pattern, replacement) ==
    IF pattern = <<>>
    THEN replacement \o (IF text = <<>> THEN <<>>
                         ELSE <<text[1]>> \o replace_all(Tail(text), pattern, replacement))
    ELSE IF Len(text) < Len(pattern) THEN text
    ELSE IF SubSeq(text, 1, Len(pattern)) = pattern
    THEN replacement
         \o replace_all(SubSeq(text, Len(pattern) + 1, Len(text)), pattern, replacement)
    ELSE <<text[1]>> \o replace_all(Tail(text), pattern, replacement)

\* The function `replace` of the standard library: text, pattern and
\* replacement are taken one by one, each must be a string, and no
\* parameter may be left.
Functions_replace(exec, parameters) ==
    IF Len(parameters) < 1 THEN Err(exec, "InvalidParameters")
    ELSE IF parameters[1][1] # "String" THEN Err(exec, "ExpectedString")
    ELSE IF Len(parameters) < 2 THEN Err(exec, "InvalidParameters")
    ELSE IF parameters[2][1] # "String" THEN Err(exec, "ExpectedString")
    ELSE IF Len(parameters) < 3 THEN Err(exec, "InvalidParameters")
    ELSE IF parameters[3][1] # "String" THEN Err(exec, "ExpectedString")
    ELSE IF Len(parameters) > 3 THEN Err(exec, "InvalidParameters")
    ELSE Ok(exec, String(Str(replace_all(Chars(parameters[1][2]), Chars(parameters[2][2]),
                                         Chars(parameters[3][2])))))

Functions_call(function, exec, parameters) ==
    IF function = "replace" THEN Functions_replace(exec, parameters)
    ELSE IF function = "node"
    THEN IF Len(parameters) # 0
         THEN Err(exec, "InvalidParameters")
         ELSE LET r == Graph_add_graph_node(exec.graph)
              IN  Ok([exec EXCEPT !.graph = r.graph], GraphNode(r.ref))
    ELSE IF function = "source-text"
    THEN IF Len(parameters) # 1
         THEN Err(exec, "InvalidParameters")
         ELSE IF parameters[1][1] # "SyntaxNode"
         THEN Err(exec, "ExpectedSyntaxNode")
         ELSE Ok(exec, String(SourceText(exec.graph.syntax_nodes[parameters[1][2]])))
    ELSE Err(exec, "UndefinedFunction")

(***************************************************************************)
(* The regex engine.  A string is the sequence of its characters; a regex  *)
(* is an alternation of literals, `a|ab`, or of groups, `(a)|(ab)`.  Its   *)
(* match in a text is the leftmost one, and at that start the one of the   *)
(* first alternative that matches there.                                   *)
(***************************************************************************)
Regex(alternatives, groups) == [alternatives |-> alternatives, groups |-> groups]

\* The alternative k of regex matches text at the offset start.
Regex_matches_at(regex, text, start, k) ==
    /\ start + Len(regex.alternatives[k]) <= Len(text)
    /\ SubSeq(text, start + 1, start + Len(regex.alternatives[k]))
          = Chars(regex.alternatives[k])

\* The captures of the match of alternative k at start: group 0 is the whole
\* match, a group that did not take part is None.
Regex_captures_of(regex, start, k) ==
    [found |-> TRUE, start |-> start,
     end |-> start + Len(regex.alternatives[k]),
     groups |-> <<[some |-> TRUE, text |-> regex.alternatives[k]]>> \o
                (IF regex.groups
                 THEN [j \in 1 .. Len(regex.alternatives) |->
                          IF j = k THEN [some |-> TRUE, text |-> regex.alternatives[k]]
                          ELSE [some |-> FALSE, text |-> ""]]
                 ELSE <<>>)]

\* Regex::captures: the leftmost match of regex in text, None if there is none
Regex_captures(regex, text) ==
    IF \A start \in 0 .. Len(text), k \in 1 .. Len(regex.alternatives) :
           ~Regex_matches_at(regex, text, start, k)
    THEN [found |-> FALSE, start |-> 0, end |-> 0, groups |-> <<>>]
    ELSE Regex_captures_of(regex,
             CHOOSE start \in 0 .. Len(text) :
                 /\ \E k \in 1 .. Len(regex.alternatives) :
                        Regex_matches_at(regex, text, start, k)
                 /\ \A earlier \in 0 .. (start - 1), k \in 1 .. Len(regex.alternatives) :
                        ~Regex_matches_at(regex, text, earlier, k),
             CHOOSE k \in 1 .. Len(regex.alternatives) :
                 /\ \E start \in 0 .. Len(text) :
                        /\ Regex_matches_at(regex, text, start, k)
                        /\ \A earlier \in 0 .. (start - 1),
                              j \in 1 .. Len(regex.alternatives) :
                                  ~Regex_matches_at(regex, text, earlier, j)
                        /\ \A j \in 1 .. (k - 1) :
                              ~Regex_matches_at(regex, text, start, j))

(***************************************************************************)
(* execution.rs: expressions                                               *)
(***************************************************************************)
\* The `map` of query_capture_value for ZeroOrMore and OneOrMore: every
\* node is registered, in the order of the match's captures.
RECURSIVE query_capture_values(_, _, _, _)
query_capture_values(nodes, i, acc, graph) ==
    IF i > Len(nodes) THEN [graph |-> graph, value |-> List(acc)]
    ELSE query_capture_values(nodes, i + 1,
             Append(acc, SyntaxNode(Graph_add_syntax_node(graph, nodes[i].node).ref)),
             Graph_add_syntax_node(graph, nodes[i].node).graph)

\* Mutant of query_capture_value: a list capture with no node is Null.
query_capture_value_null(index, quantifier, mat, graph) ==
    LET nodes == SelectSeq(mat.captures, LAMBDA c : c.index = index)
    IN  IF nodes = <<>> THEN [graph |-> graph, value |-> Null]
        ELSE IF quantifier \in {"ZeroOrMore", "OneOrMore"}
        THEN query_capture_values(nodes, 1, <<>>, graph)
        ELSE [graph |-> Graph_add_syntax_node(graph, nodes[1].node).graph,
              value |-> SyntaxNode(Graph_add_syntax_node(graph, nodes[1].node).ref)]

\* query_capture_value: the nodes the match captured under index, registered
\* in the graph.  One takes the first (the query guarantees there is one),
\* ZeroOrOne the first if there is one; the quantifier Zero panics and no
\* expression has it.
query_capture_value(index, quantifier, mat, graph) ==
    LET nodes == SelectSeq(mat.captures, LAMBDA c : c.index = index)
    IN  CASE quantifier = "One" ->
               [graph |-> Graph_add_syntax_node(graph, nodes[1].node).graph,
                value |-> SyntaxNode(Graph_add_syntax_node(graph, nodes[1].node).ref)]
          [] quantifier \in {"ZeroOrMore", "OneOrMore"} ->
               query_capture_values(nodes, 1, <<>>, graph)
          [] quantifier = "ZeroOrOne" ->
               IF nodes = <<>> THEN [graph |-> graph, value |-> Null]
               ELSE [graph |-> Graph_add_syntax_node(graph, nodes[1].node).graph,
                     value |-> SyntaxNode(Graph_add_syntax_node(graph, nodes[1].node).ref)]

\* UnscopedVariable::get
UnscopedVariable_get(name, exec) ==
    LET g == Globals_get(exec.globals, name)
        l == VariableMap_get(exec.locals, name)
    IN  IF g.found THEN Ok(exec, g.value)
        ELSE IF l.found THEN Ok(exec, l.value)
        ELSE Err(exec, "UndefinedVariable")

\* ScopedVariables::new: no syntax node has variables
ScopedVariables_new == <<>>

\* ScopedVariables::get: the variables of scope, created if there were none
ScopedVariables_get(scoped, scope) ==
    IF scope \in DOMAIN scoped
    THEN [scoped |-> scoped, variables |-> scoped[scope]]
    ELSE [scoped |-> [n \in DOMAIN scoped \cup {scope} |->
                        IF n = scope THEN VariableMap_new ELSE scoped[n]],
          variables |-> VariableMap_new]

RECURSIVE Expression_evaluate(_, _)
RECURSIVE Call_push_parameters(_, _, _)
RECURSIVE ListComprehension_evaluate(_, _, _, _)

\* ListComprehension::evaluate: the elements' values, in order
ListComprehension_evaluate(elements, i, acc, exec) ==
    IF i > Len(elements) THEN Ok(exec, List(acc))
    ELSE Try(Expression_evaluate(elements[i], exec), LAMBDA r :
             ListComprehension_evaluate(elements, i + 1, Append(acc, r.value), r.exec))

\* RegexCapture::evaluate
RegexCapture_evaluate(match_index, exec) ==
    IF match_index < Len(exec.current_regex_captures)
    THEN Ok(exec, String(exec.current_regex_captures[match_index + 1]))
    ELSE Err(exec, "UndefinedRegexCapture")

\* The head of ScopedVariable::get, add and set: the scope must evaluate to a
\* syntax node, whose variables are then fetched.
ScopedVariable_scope(scope, exec) ==
    Try(Expression_evaluate(scope, exec), LAMBDA r :
        IF r.value[1] # "SyntaxNode" THEN Err(r.exec, "InvalidVariableScope")
        ELSE Ok([r.exec EXCEPT !.scoped = ScopedVariables_get(@, r.value[2]).scoped],
                r.value[2]))

\* ScopedVariable::get
ScopedVariable_get(scope, name, exec) ==
    Try(ScopedVariable_scope(scope, exec), LAMBDA s :
        LET v == VariableMap_get(s.exec.scoped[s.value], name)
        IN  IF v.found THEN Ok(s.exec, v.value)
            ELSE Err(s.exec, "UndefinedVariable"))

\* ScopedVariable::add
ScopedVariable_add(scope, name, exec, value, mutable) ==
    Try(ScopedVariable_scope(scope, exec), LAMBDA s :
        LET r == VariableMap_add(s.exec.scoped[s.value], name, value, mutable)
        IN  IF r.ok THEN Ok([s.exec EXCEPT !.scoped[s.value] = r.maps], Null)
            ELSE Err(s.exec, "DuplicateVariable"))

\* ScopedVariable::set
ScopedVariable_set(scope, name, exec, value) ==
    Try(ScopedVariable_scope(scope, exec), LAMBDA s :
        LET r == VariableMap_set(s.exec.scoped[s.value], name, value)
        IN  IF r.ok THEN Ok([s.exec EXCEPT !.scoped[s.value] = r.maps], Null)
            ELSE Err(s.exec, "DuplicateVariable"))

\* The loop of Call::evaluate: evaluate each parameter and push it.
Call_push_parameters(parameters, i, exec) ==
    IF i > Len(parameters) THEN Ok(exec, Null)
    ELSE LET r == Expression_evaluate(parameters[i], exec)
         IN  IF r.err # "none" THEN r
             ELSE Call_push_parameters(parameters, i + 1,
                      [r.exec EXCEPT !.function_parameters = Append(@, r.value)])

\* Mutant of Call::evaluate: the function gets the last parameters of the
\* buffer, which are not taken out of it.
Call_evaluate_undrained(function, parameters, exec) ==
    LET p == Call_push_parameters(parameters, 1, exec)
    IN  IF p.err # "none" THEN p
        ELSE LET buffer == p.exec.function_parameters
                 first == Len(buffer) - Len(parameters)
                 args == SubSeq(buffer, first + 1, Len(buffer))
             IN  Functions_call(function, p.exec, args)

\* Call::evaluate: the call receives the drained tail of function_parameters.
Call_evaluate(function, parameters, exec) ==
    LET p == Call_push_parameters(parameters, 1, exec)
    IN  IF p.err # "none" THEN p
        ELSE LET buffer == p.exec.function_parameters
                 first == Len(buffer) - Len(parameters)
                 args == SubSeq(buffer, first + 1, Len(buffer))
                 drained == [p.exec EXCEPT !.function_parameters =
                                SubSeq(buffer, 1, first)]
             IN  Functions_call(function, drained, args)

Expression_evaluate(expr, exec) ==
    CASE expr[1] = "FalseLiteral" -> Ok(exec, Boolean(FALSE))
      [] expr[1] = "NullLiteral" -> Ok(exec, Null)
      [] expr[1] = "TrueLiteral" -> Ok(exec, Boolean(TRUE))
      [] expr[1] = "IntegerConstant" -> Ok(exec, Integer(expr[2]))
      [] expr[1] = "StringConstant" -> Ok(exec, String(expr[2]))
      [] expr[1] = "Capture" ->
            LET r == query_capture_value(expr[2], expr[3], exec.mat, exec.graph)
            IN  Ok([exec EXCEPT !.graph = r.graph], r.value)
      [] expr[1] = "UnscopedVariable" -> UnscopedVariable_get(expr[2], exec)
      [] expr[1] = "ScopedVariable" -> ScopedVariable_get(expr[2], expr[3], exec)
      [] expr[1] = "Call" -> Call_evaluate(expr[2], expr[3], exec)
      [] expr[1] = "ListComprehension" ->
            ListComprehension_evaluate(expr[2], 1, <<>>, exec)
      [] expr[1] = "RegexCapture" -> RegexCapture_evaluate(expr[2], exec)

\* Value::into_graph_node_ref
into_graph_node_ref(r) ==
    IF r.err # "none" THEN r
    ELSE IF r.value[1] = "GraphNode" THEN Ok(r.exec, r.value[2])
    ELSE Err(r.exec, "ExpectedGraphNode")

\* Mutant of UnscopedVariable::add: a global may be shadowed.
UnscopedVariable_add_shadowing(name, exec, value, mutable) ==
    IF VariableMap_add(exec.locals, name, value, mutable).ok
    THEN Ok([exec EXCEPT !.locals = VariableMap_add(@, name, value, mutable).maps], Null)
    ELSE Err(exec, "DuplicateVariable")

\* UnscopedVariable::add
UnscopedVariable_add(name, exec, value, mutable) ==
    IF Globals_get(exec.globals, name).found
    THEN Err(exec, "DuplicateVariable")
    ELSE LET r == VariableMap_add(exec.locals, name, value, mutable)
         IN  IF r.ok THEN Ok([exec EXCEPT !.locals = r.maps], Null)
             ELSE Err(exec, "DuplicateVariable")

\* Mutant of UnscopedVariable::set: an immutable local is overwritten too.
UnscopedVariable_set_immutable(name, exec, value) ==
    IF Globals_get(exec.globals, name).found
    THEN Err(exec, "CannotAssignImmutableVariable")
    ELSE IF VariableMap_get(exec.locals, name).found
    THEN Ok([exec EXCEPT !.locals[Len(exec.locals)][name].value = value], Null)
    ELSE Err(exec, "UndefinedVariable")

\* UnscopedVariable::set
UnscopedVariable_set(name, exec, value) ==
    IF Globals_get(exec.globals, name).found
    THEN Err(exec, "CannotAssignImmutableVariable")
    ELSE LET r == VariableMap_set(exec.locals, name, value)
         IN  IF r.ok THEN Ok([exec EXCEPT !.locals = r.maps], Null)
             ELSE IF VariableMap_get(exec.locals, name).found
             THEN Err(exec, "CannotAssignImmutableVariable")
             ELSE Err(exec, "UndefinedVariable")

\* Variable::add
Variable_add(variable, exec, value, mutable) ==
    IF variable[1] = "ScopedVariable"
    THEN ScopedVariable_add(variable[2], variable[3], exec, value, mutable)
    ELSE UnscopedVariable_add(variable[2], exec, value, mutable)

\* Variable::set
Variable_set(variable, exec, value) ==
    IF variable[1] = "ScopedVariable"
    THEN ScopedVariable_set(variable[2], variable[3], exec, value)
    ELSE UnscopedVariable_set(variable[2], exec, value)

(***************************************************************************)
(* execution.rs: statements                                                *)
(***************************************************************************)
\* Index<GraphNodeRef> for Graph: indexing past the node vector panics.
InGraph(graph, ref) == ref < Len(graph.graph_nodes)

\* Mutant of CreateGraphNode::execute: the variable gets the reference after
\* the one of the node added.
CreateGraphNode_execute_next(stmt, exec) ==
    LET r == Graph_add_graph_node(exec.graph)
    IN  Variable_add(stmt[2], [exec EXCEPT !.graph = r.graph], GraphNode(r.ref + 1), FALSE)

\* CreateGraphNode::execute
CreateGraphNode_execute(stmt, exec) ==
    LET r == Graph_add_graph_node(exec.graph)
    IN  Variable_add(stmt[2], [exec EXCEPT !.graph = r.graph], GraphNode(r.ref), FALSE)

\* DeclareImmutable::execute
DeclareImmutable_execute(stmt, exec) ==
    LET r == Expression_evaluate(stmt[3], exec)
    IN  IF r.err # "none" THEN r
        ELSE Variable_add(stmt[2], r.exec, r.value, FALSE)

\* DeclareMutable::execute
DeclareMutable_execute(stmt, exec) ==
    Try(Expression_evaluate(stmt[3], exec), LAMBDA r :
        Variable_add(stmt[2], r.exec, r.value, TRUE))

\* Assign::execute
Assign_execute(stmt, exec) ==
    Try(Expression_evaluate(stmt[3], exec), LAMBDA r :
        Variable_set(stmt[2], r.exec, r.value))

\* The loop of AddGraphNodeAttribute::execute over self.attributes
RECURSIVE AddGraphNodeAttribute_loop(_, _, _, _)
AddGraphNodeAttribute_loop(attributes, i, node, exec) ==
    IF i > Len(attributes) THEN Ok(exec, Null)
    ELSE LET v == Expression_evaluate(attributes[i].value, exec)
         IN  IF v.err # "none" THEN v
             ELSE IF ~InGraph(v.exec.graph, node) THEN Err(v.exec, "panic")
             ELSE LET a == Attributes_add(v.exec.graph.graph_nodes[node + 1].attributes,
                                          attributes[i].name, v.value)
                      next == [v.exec EXCEPT
                                  !.graph.graph_nodes[node + 1].attributes = a.attributes]
                  IN  IF a.ok
                      THEN AddGraphNodeAttribute_loop(attributes, i + 1, node, next)
                      ELSE Err(next, "DuplicateAttribute")

\* AddGraphNodeAttribute::execute
AddGraphNodeAttribute_execute(stmt, exec) ==
    LET node == into_graph_node_ref(Expression_evaluate(stmt[2], exec))
    IN  IF node.err # "none" THEN node
        ELSE AddGraphNodeAttribute_loop(stmt[3], 1, node.value, node.exec)

\* Mutant of CreateEdge::execute: an edge from sink to source counts as a
\* duplicate too.
CreateEdge_insert_undirected(source, sink, exec) ==
    IF ~InGraph(exec.graph, source) \/ ~InGraph(exec.graph, sink)
    THEN Err(exec, "panic")
    ELSE LET e == GraphNode_add_edge(exec.graph.graph_nodes[source + 1], sink)
             back == binary_search_by_key(
                         exec.graph.graph_nodes[sink + 1].outgoing_edges, source)
         IN  IF e.ok /\ ~back.found
             THEN Ok([exec EXCEPT !.graph.graph_nodes[source + 1] = e.node], Null)
             ELSE Err(exec, "DuplicateEdge")

\* The insertion of CreateEdge::execute, once source and sink are known
CreateEdge_insert(source, sink, exec) ==
    IF ~InGraph(exec.graph, source) THEN Err(exec, "panic")
    ELSE LET e == GraphNode_add_edge(exec.graph.graph_nodes[source + 1], sink)
         IN  IF e.ok
             THEN Ok([exec EXCEPT !.graph.graph_nodes[source + 1] = e.node], Null)
             ELSE Err(exec, "DuplicateEdge")

\* CreateEdge::execute
CreateEdge_execute(stmt, exec) ==
    LET source == into_graph_node_ref(Expression_evaluate(stmt[2], exec))
    IN  IF source.err # "none" THEN source
        ELSE LET sink == into_graph_node_ref(Expression_evaluate(stmt[3], source.exec))
             IN  IF sink.err # "none" THEN sink
                 ELSE CreateEdge_insert(source.value, sink.value, sink.exec)

\* The loop of AddEdgeAttribute::execute over self.attributes
RECURSIVE AddEdgeAttribute_loop(_, _, _, _, _)
AddEdgeAttribute_loop(attributes, i, source, sink, exec) ==
    IF i > Len(attributes) THEN Ok(exec, Null)
    ELSE LET v == Expression_evaluate(attributes[i].value, exec)
         IN  IF v.err # "none" THEN v
             ELSE IF ~InGraph(v.exec.graph, source) THEN Err(v.exec, "panic")
             ELSE LET edge == GraphNode_get_edge_mut(
                                  v.exec.graph.graph_nodes[source + 1], sink)
                  IN  IF ~edge.found THEN Err(v.exec, "UndefinedEdge")
                      ELSE LET old == v.exec.graph.graph_nodes[source + 1]
                                          .outgoing_edges[edge.index + 1][2].attributes
                               a == Attributes_add(old, attributes[i].name, v.value)
                               next == [v.exec EXCEPT
                                   !.graph.graph_nodes[source + 1]
                                    .outgoing_edges[edge.index + 1][2].attributes =
                                        a.attributes]
                           IN  IF a.ok
                               THEN AddEdgeAttribute_loop(attributes, i + 1, source,
                                                          sink, next)
                               ELSE Err(next, "DuplicateAttribute")

\* AddEdgeAttribute::execute
AddEdgeAttribute_execute(stmt, exec) ==
    LET source == into_graph_node_ref(Expression_evaluate(stmt[2], exec))
    IN  IF source.err # "none" THEN source
        ELSE LET sink == into_graph_node_ref(Expression_evaluate(stmt[3], source.exec))
             IN  IF sink.err # "none" THEN sink
                 ELSE AddEdgeAttribute_loop(stmt[4], 1, source.value, sink.value,
                                            sink.exec)

\* Value::into_boolean
into_boolean(r) ==
    IF r.err # "none" THEN r
    ELSE IF r.value[1] = "Boolean" THEN r
    ELSE Err(r.exec, "ExpectedBoolean")

\* Condition::test
Condition_test(condition, exec) ==
    Try(Expression_evaluate(condition[2], exec), LAMBDA r :
        CASE condition[1] = "Some" -> Ok(r.exec, Boolean(r.value # Null))
          [] condition[1] = "None" -> Ok(r.exec, Boolean(r.value = Null))
          [] condition[1] = "Bool" -> into_boolean(r))

\* VariableMap::nested: a child scope on top of locals; dropping it leaves
\* the parent with what the child assigned in it.
VariableMap_nested(maps) == Append(maps, EmptyMap)
VariableMap_parent(maps) == SubSeq(maps, 1, Len(maps) - 1)

\* The arm's locals are dropped when If::execute leaves the arm.
If_leave_arm(r) == [r EXCEPT !.exec.locals = VariableMap_parent(@)]

RECURSIVE Statement_execute(_, _)
RECURSIVE If_conditions(_, _, _, _)
RECURSIVE If_statements(_, _, _)
RECURSIVE If_arms(_, _, _)

\* The loop of If::execute over arm.conditions: every condition is tested
If_conditions(conditions, i, result, exec) ==
    IF i > Len(conditions) THEN Ok(exec, Boolean(result))
    ELSE Try(Condition_test(conditions[i], exec), LAMBDA r :
             If_conditions(conditions, i + 1, result /\ r.value[2], r.exec))

\* The loop of If::execute over arm.statements
If_statements(statements, i, exec) ==
    IF i > Len(statements) THEN Ok(exec, Null)
    ELSE Try(Statement_execute(statements[i], exec), LAMBDA r :
             If_statements(statements, i + 1, r.exec))

\* Mutant of the loop over the arms: the arms after a true one are tested
\* and executed as well.
If_arms_all(arms, i, exec) ==
    IF i > Len(arms) THEN Ok(exec, Null)
    ELSE Try(If_conditions(arms[i].conditions, 1, TRUE, exec), LAMBDA c :
             IF c.value[2]
             THEN Try(If_leave_arm(If_statements(arms[i].statements, 1,
                          [c.exec EXCEPT !.locals = VariableMap_nested(@)])),
                      LAMBDA r : If_arms(arms, i + 1, r.exec))
             ELSE If_arms(arms, i + 1, c.exec))

\* The loop of If::execute over self.arms
If_arms(arms, i, exec) ==
    IF i > Len(arms) THEN Ok(exec, Null)
    ELSE Try(If_conditions(arms[i].conditions, 1, TRUE, exec), LAMBDA c :
             IF c.value[2]
             THEN If_leave_arm(If_statements(arms[i].statements, 1,
                      [c.exec EXCEPT !.locals = VariableMap_nested(@)]))
             ELSE If_arms(arms, i + 1, c.exec))

\* If::execute
If_execute(stmt, exec) == If_arms(stmt[2], 1, exec)

\* Value::into_string
into_string(r) ==
    IF r.err # "none" THEN r
    ELSE IF r.value[1] = "String" THEN r
    ELSE Err(r.exec, "ExpectedString")

\* Value::into_list
into_list(r) ==
    IF r.err # "none" THEN r
    ELSE IF r.value[1] = "List" THEN r
    ELSE Err(r.exec, "ExpectedList")

RECURSIVE Scan_matches(_, _, _, _)
\* Mutant of the loop over the arms: an empty match is skipped.
Scan_matches_push_nonempty(arms, index, text, matches, captures) ==
    IF (~captures.found) \/ captures.start = captures.end
    THEN Scan_matches(arms, index + 1, text, matches)
    ELSE Scan_matches(arms, index + 1, text,
             Append(matches, [captures |-> captures, index |-> index]))

\* The body of `for (index, arm) in self.arms.iter().enumerate()` of Scan
\* for the captures of the arm's regex in the rest of the string
Scan_matches_push(arms, index, text, matches, captures) ==
    IF ~captures.found THEN Scan_matches(arms, index + 1, text, matches)
    ELSE IF captures.start = captures.end
    THEN [err |-> "EmptyRegexCapture", matches |-> matches]
    ELSE Scan_matches(arms, index + 1, text,
             Append(matches, [captures |-> captures, index |-> index]))

\* The loop of Scan::execute over self.arms: the arms whose regex matches
\* in text, with their captures; index counts from 0.
Scan_matches(arms, index, text, matches) ==
    IF index >= Len(arms) THEN [err |-> "none", matches |-> matches]
    ELSE Scan_matches_push(arms, index, text, matches,
             Regex_captures(arms[index + 1].regex, text))

\* Mutant of the choice of the arm: the matches are not sorted.
Scan_unsorted_first(matches) == matches[1]

\* matches.sort_by_key(range.start, index), then matches[0]
Scan_sorted_first(matches) ==
    matches[CHOOSE m \in 1 .. Len(matches) :
                \A o \in 1 .. Len(matches) :
                    \/ matches[m].captures.start < matches[o].captures.start
                    \/ /\ matches[m].captures.start = matches[o].captures.start
                       /\ matches[m].index <= matches[o].index]

\* current_regex_captures of the arm: a group that is None gives ""
Scan_regex_captures(captures) ==
    [g \in 1 .. Len(captures.groups) |->
        IF captures.groups[g].some THEN captures.groups[g].text ELSE ""]

RECURSIVE Scan_statements(_, _, _)
RECURSIVE Scan_loop(_, _, _, _)

\* The loop of Scan::execute over arm.statements
Scan_statements(statements, i, exec) ==
    IF i > Len(statements) THEN Ok(exec, Null)
    ELSE Try(Statement_execute(statements[i], exec), LAMBDA r :
             Scan_statements(statements, i + 1, r.exec))

\* Mutant of the second half of the turn: i advances by the length of the
\* match, not by its end.
Scan_arm_by_length(arms, match_string, i, exec, first) ==
    Try(Scan_statements(arms[first.index + 1].statements, 1,
            [exec EXCEPT !.locals = VariableMap_nested(@),
                         !.current_regex_captures = Scan_regex_captures(first.captures)]),
        LAMBDA r :
            Scan_loop(arms, match_string,
                i + first.captures.end - first.captures.start,
                [r.exec EXCEPT !.locals = VariableMap_parent(@),
                               !.current_regex_captures = exec.current_regex_captures]))

\* The second half of a turn of `while i < match_string.len()`: the first of
\* the sorted matches gives the arm, which is executed in nested locals with
\* its regex captures, and i advances by the end of the match.
Scan_arm(arms, match_string, i, exec, first) ==
    Try(Scan_statements(arms[first.index + 1].statements, 1,
            [exec EXCEPT !.locals = VariableMap_nested(@),
                         !.current_regex_captures = Scan_regex_captures(first.captures)]),
        LAMBDA r :
            Scan_loop(arms, match_string, i + first.captures.end,
                [r.exec EXCEPT !.locals = VariableMap_parent(@),
                               !.current_regex_captures = exec.current_regex_captures]))

\* The first half of the turn, for the matches m of the arms
Scan_turn(arms, match_string, i, exec, m) ==
    IF m.err # "none" THEN Err(exec, m.err)
    ELSE IF m.matches = <<>> THEN Ok(exec, Null)
    ELSE Scan_arm(arms, match_string, i, exec, Scan_sorted_first(m.matches))

\* Mutant of the loop of Scan::execute: one more turn at the end of the
\* string.
Scan_loop_past_end(arms, match_string, i, exec) ==
    IF i > Len(match_string) THEN Ok(exec, Null)
    ELSE Scan_turn(arms, match_string, i, exec,
             Scan_matches(arms, 0, SubSeq(match_string, i + 1, Len(match_string)), <<>>))

\* `while i < match_string.len()` of Scan::execute
Scan_loop(arms, match_string, i, exec) ==
    IF i >= Len(match_string) THEN Ok(exec, Null)
    ELSE Scan_turn(arms, match_string, i, exec,
             Scan_matches(arms, 0, SubSeq(match_string, i + 1, Len(match_string)), <<>>))

\* Scan::execute
Scan_execute(stmt, exec) ==
    Try(into_string(Expression_evaluate(stmt[2], exec)), LAMBDA s :
        Scan_loop(stmt[3], Chars(s.value[2]), 0, s.exec))

RECURSIVE ForIn_statements(_, _, _)
RECURSIVE ForIn_values(_, _, _, _)

\* The loop of ForIn::execute over self.statements
ForIn_statements(statements, i, exec) ==
    IF i > Len(statements) THEN Ok(exec, Null)
    ELSE Try(Statement_execute(statements[i], exec), LAMBDA r :
             ForIn_statements(statements, i + 1, r.exec))

\* Mutant of `for value in values` of ForIn::execute: loop_locals is not
\* cleared.
ForIn_values_kept(stmt, values, i, exec) ==
    IF i > Len(values) THEN Ok(exec, Null)
    ELSE Try(Variable_add(stmt[2], exec, values[i], FALSE),
             LAMBDA a :
                 Try(ForIn_statements(stmt[4], 1, a.exec), LAMBDA r :
                     ForIn_values(stmt, values, i + 1, r.exec)))

\* `for value in values` of ForIn::execute: loop_locals, the innermost map
\* of exec.locals, is cleared, the variable is added to it, immutable, and
\* the statements are executed.
ForIn_values(stmt, values, i, exec) ==
    IF i > Len(values) THEN Ok(exec, Null)
    ELSE Try(Variable_add(stmt[2], [exec EXCEPT !.locals = VariableMap_clear(@)],
                          values[i], FALSE),
             LAMBDA a :
                 Try(ForIn_statements(stmt[4], 1, a.exec), LAMBDA r :
                     ForIn_values(stmt, values, i + 1, r.exec)))

\* ForIn::execute: loop_locals is dropped when the loop is left.
ForIn_execute(stmt, exec) ==
    Try(into_list(Expression_evaluate(stmt[3], exec)), LAMBDA v :
        [ForIn_values(stmt, v.value[2], 1,
                      [v.exec EXCEPT !.locals = VariableMap_nested(@)])
            EXCEPT !.exec.locals = VariableMap_parent(@)])

\* Statement::execute
Statement_execute(stmt, exec) ==
    CASE stmt[1] = "DeclareImmutable" -> DeclareImmutable_execute(stmt, exec)
      [] stmt[1] = "DeclareMutable" -> DeclareMutable_execute(stmt, exec)
      [] stmt[1] = "Assign" -> Assign_execute(stmt, exec)
      [] stmt[1] = "CreateGraphNode" -> CreateGraphNode_execute(stmt, exec)
      [] stmt[1] = "AddGraphNodeAttribute" -> AddGraphNodeAttribute_execute(stmt, exec)
      [] stmt[1] = "CreateEdge" -> CreateEdge_execute(stmt, exec)
      [] stmt[1] = "AddEdgeAttribute" -> AddEdgeAttribute_execute(stmt, exec)
      [] stmt[1] = "If" -> If_execute(stmt, exec)
      [] stmt[1] = "Scan" -> Scan_execute(stmt, exec)
      [] stmt[1] = "ForIn" -> ForIn_execute(stmt, exec)

(***************************************************************************)
(* lazy_execution/values.rs and store.rs: lazy values and the thunk store. *)
(* A thunk is [value, state] with state Unevaluated, Evaluating or         *)
(* Evaluated(v); a LazyVariable is the index of its thunk in the store.    *)
(***************************************************************************)
LazyValue_Value(value) == <<"Value", value>>
LazyVariable(store_location) == <<"Variable", store_location>>
LazyCall(function, arguments) == <<"Call", function, arguments>>
LazyScopedVariable(scope, name) == <<"ScopedVariable", scope, name>>
LazyList(elements) == <<"List", elements>>

Unevaluated == <<"Unevaluated", Null>>
Evaluating == <<"Evaluating", Null>>
Evaluated(value) == <<"Evaluated", value>>

\* LazyStore::add
LazyStore_add(store, value) ==
    [store |-> Append(store, [value |-> value, state |-> Unevaluated]),
     variable |-> LazyVariable(Len(store))]

\* LazyScopedVariables: the pending list of (scope thunk, name, handle) and
\* the syntax nodes a lookup has been forced for.
LazyScopedVariables_new == [pending |-> <<>>, forced |-> {}]

\* Mutant of LazyScopedVariables::add: a node whose lookups were forced still
\* takes additions.
LazyScopedVariables_add_unchecked(scoped_store, scope, name, variable) ==
    IF \E i \in 1 .. Len(scoped_store.pending) :
           /\ scoped_store.pending[i].scope = scope
           /\ scoped_store.pending[i].name = name
    THEN [err |-> "DuplicateVariable", scoped_store |-> scoped_store]
    ELSE [err |-> "none",
          scoped_store |-> [scoped_store EXCEPT !.pending =
              Append(@, [scope |-> scope, name |-> name, variable |-> variable])]]

\* LazyScopedVariables::add
LazyScopedVariables_add(scoped_store, scope, name, variable) ==
    IF scope[1] = "Value" /\ scope[2][1] = "SyntaxNode"
       /\ scope[2][2] \in scoped_store.forced
    THEN [err |-> "VariableScopesAlreadyForced", scoped_store |-> scoped_store]
    ELSE IF \E i \in 1 .. Len(scoped_store.pending) :
                /\ scoped_store.pending[i].scope = scope
                /\ scoped_store.pending[i].name = name
    THEN [err |-> "DuplicateVariable", scoped_store |-> scoped_store]
    ELSE [err |-> "none",
          scoped_store |-> [scoped_store EXCEPT !.pending =
              Append(@, [scope |-> scope, name |-> name, variable |-> variable])]]

RECURSIVE LazyValue_evaluate(_, _)
RECURSIVE LazyCall_push_arguments(_, _, _)
RECURSIVE LazyScopedVariables_resolve(_, _, _, _, _)
RECURSIVE LazyList_evaluate(_, _, _, _)

\* Mutant of the forcing of a thunk: an evaluated thunk is evaluated again.
LazyStore_evaluate_again(store_location, exec) ==
    LET thunk == exec.store[store_location + 1]
    IN  IF thunk.state[1] = "Evaluating"
        THEN Err(exec, "RecursivelyDefinedVariable")
        ELSE Try(LazyValue_evaluate(thunk.value,
                     [exec EXCEPT !.store[store_location + 1].state = Evaluating]),
                 LAMBDA r : Ok([r.exec EXCEPT !.store[store_location + 1].state =
                                   Evaluated(r.value)], r.value))

\* Forcing a thunk of the store
LazyStore_evaluate(store_location, exec) ==
    LET thunk == exec.store[store_location + 1]
    IN  IF thunk.state[1] = "Evaluated" THEN Ok(exec, thunk.state[2])
        ELSE IF thunk.state[1] = "Evaluating"
        THEN Err(exec, "RecursivelyDefinedVariable")
        ELSE LET r == LazyValue_evaluate(thunk.value,
                          [exec EXCEPT !.store[store_location + 1].state = Evaluating])
             IN  IF r.err # "none" THEN r
                 ELSE Ok([r.exec EXCEPT !.store[store_location + 1].state =
                             Evaluated(r.value)], r.value)

\* LazyCall::evaluate: force the arguments in order, then call the function.
LazyCall_push_arguments(arguments, i, exec) ==
    IF i > Len(arguments) THEN Ok(exec, Null)
    ELSE LET r == LazyValue_evaluate(arguments[i], exec)
         IN  IF r.err # "none" THEN r
             ELSE LazyCall_push_arguments(arguments, i + 1,
                      [r.exec EXCEPT !.function_parameters = Append(@, r.value)])

LazyCall_evaluate(function, arguments, exec) ==
    LET p == LazyCall_push_arguments(arguments, 1, exec)
    IN  IF p.err # "none" THEN p
        ELSE LET buffer == p.exec.function_parameters
                 first == Len(buffer) - Len(arguments)
                 args == SubSeq(buffer, first + 1, Len(buffer))
                 drained == [p.exec EXCEPT !.function_parameters =
                                SubSeq(buffer, 1, first)]
             IN  Functions_call(function, drained, args)

\* Value::into_syntax_node_ref
into_syntax_node_ref(r) ==
    IF r.err # "none" THEN r
    ELSE IF r.value[1] = "SyntaxNode" THEN Ok(r.exec, r.value[2])
    ELSE Err(r.exec, "ExpectedSyntaxNode")

\* The handles the pending list holds for name on the syntax node: the
\* scope thunk of every pending entry of name is forced, in the order added.
LazyScopedVariables_resolve(i, node, name, acc, exec) ==
    IF i > Len(exec.scoped_store.pending) THEN Ok(exec, acc)
    ELSE IF exec.scoped_store.pending[i].name # name
    THEN LazyScopedVariables_resolve(i + 1, node, name, acc, exec)
    ELSE Try(into_syntax_node_ref(
                 LazyValue_evaluate(exec.scoped_store.pending[i].scope, exec)),
             LAMBDA s :
                 LazyScopedVariables_resolve(i + 1, node, name,
                     IF s.value = node
                     THEN Append(acc, exec.scoped_store.pending[i].variable)
                     ELSE acc,
                     s.exec))

\* LazyScopedVariables::evaluate: forcing the lookup of name on scope
LazyScopedVariables_evaluate(scope, name, exec) ==
    Try(into_syntax_node_ref(LazyValue_evaluate(scope, exec)), LAMBDA s :
        Try(LazyScopedVariables_resolve(1, s.value, name, <<>>,
                [s.exec EXCEPT !.scoped_store.forced = @ \cup {s.value}]),
            LAMBDA found :
                IF Len(found.value) # 1
                THEN Err(found.exec, "UndefinedScopedVariable")
                ELSE IF found.exec.store[found.value[1][2] + 1].state[1] = "Evaluating"
                THEN Err(found.exec, "RecursivelyDefinedScopedVariable")
                ELSE LazyStore_evaluate(found.value[1][2], found.exec)))

\* LazyList::evaluate: the elements are forced in order
LazyList_evaluate(elements, i, acc, exec) ==
    IF i > Len(elements) THEN Ok(exec, List(acc))
    ELSE Try(LazyValue_evaluate(elements[i], exec), LAMBDA r :
             LazyList_evaluate(elements, i + 1, Append(acc, r.value), r.exec))

\* LazyValue::evaluate
LazyValue_evaluate(value, exec) ==
    CASE value[1] = "Value" -> Ok(exec, value[2])
      [] value[1] = "Variable" -> LazyStore_evaluate(value[2], exec)
      [] value[1] = "ScopedVariable" ->
            LazyScopedVariables_evaluate(value[2], value[3], exec)
      [] value[1] = "Call" -> LazyCall_evaluate(value[2], value[3], exec)
      [] value[1] = "List" -> LazyList_evaluate(value[2], 1, <<>>, exec)

\* LazyValue::evaluate_as_graph_node
LazyValue_evaluate_as_graph_node(value, exec) ==
    into_graph_node_ref(LazyValue_evaluate(value, exec))

(***************************************************************************)
(* lazy_execution/statements.rs: the deferred statements of the lazy       *)
(* program and their evaluation.                                           *)
(***************************************************************************)
LazyAttribute(name, value) == [name |-> name, value |-> value]
LazyAddGraphNodeAttribute(node, attributes) ==
    <<"LazyAddGraphNodeAttribute", node, attributes>>
LazyCreateEdge(source, sink) == <<"LazyCreateEdge", source, sink>>
LazyAddEdgeAttribute(source, sink, attributes) ==
    <<"LazyAddEdgeAttribute", source, sink, attributes>>

RECURSIVE LazyAddGraphNodeAttribute_loop(_, _, _, _)
LazyAddGraphNodeAttribute_loop(attributes, i, node, exec) ==
    IF i > Len(attributes) THEN Ok(exec, Null)
    ELSE LET v == LazyValue_evaluate(attributes[i].value, exec)
         IN  IF v.err # "none" THEN v
             ELSE IF ~InGraph(v.exec.graph, node) THEN Err(v.exec, "panic")
             ELSE LET a == Attributes_add(v.exec.graph.graph_nodes[node + 1].attributes,
                                          attributes[i].name, v.value)
                      next == [v.exec EXCEPT
                                  !.graph.graph_nodes[node + 1].attributes = a.attributes]
                  IN  IF a.ok
                      THEN LazyAddGraphNodeAttribute_loop(attributes, i + 1, node, next)
                      ELSE Err(next, "DuplicateAttribute")

LazyAddGraphNodeAttribute_evaluate(stmt, exec) ==
    LET node == LazyValue_evaluate_as_graph_node(stmt[2], exec)
    IN  IF node.err # "none" THEN node
        ELSE LazyAddGraphNodeAttribute_loop(stmt[3], 1, node.value, node.exec)

LazyCreateEdge_evaluate(stmt, exec) ==
    LET source == LazyValue_evaluate_as_graph_node(stmt[2], exec)
    IN  IF source.err # "none" THEN source
        ELSE LET sink == LazyValue_evaluate_as_graph_node(stmt[3], source.exec)
             IN  IF sink.err # "none" THEN sink
                 ELSE CreateEdge_insert(source.value, sink.value, sink.exec)

RECURSIVE LazyAddEdgeAttribute_loop(_, _, _, _, _)
LazyAddEdgeAttribute_loop(attributes, i, source, sink, exec) ==
    IF i > Len(attributes) THEN Ok(exec, Null)
    ELSE LET v == LazyValue_evaluate(attributes[i].value, exec)
         IN  IF v.err # "none" THEN v
             ELSE IF ~InGraph(v.exec.graph, source) THEN Err(v.exec, "panic")
             ELSE LET edge == GraphNode_get_edge_mut(
                                  v.exec.graph.graph_nodes[source + 1], sink)
                  IN  IF ~edge.found THEN Err(v.exec, "UndefinedEdge")
                      ELSE LET old == v.exec.graph.graph_nodes[source + 1]
                                          .outgoing_edges[edge.index + 1][2].attributes
                               a == Attributes_add(old, attributes[i].name, v.value)
                               next == [v.exec EXCEPT
                                   !.graph.graph_nodes[source + 1]
                                    .outgoing_edges[edge.index + 1][2].attributes =
                                        a.attributes]
                           IN  IF a.ok
                               THEN LazyAddEdgeAttribute_loop(attributes, i + 1, source,
                                                              sink, next)
                               ELSE Err(next, "DuplicateAttribute")

LazyAddEdgeAttribute_evaluate(stmt, exec) ==
    LET source == LazyValue_evaluate_as_graph_node(stmt[2], exec)
    IN  IF source.err # "none" THEN source
        ELSE LET sink == LazyValue_evaluate_as_graph_node(stmt[3], source.exec)
             IN  IF sink.err # "none" THEN sink
                 ELSE LazyAddEdgeAttribute_loop(stmt[4], 1, source.value, sink.value,
                                                sink.exec)

\* LazyStatement::evaluate
LazyStatement_evaluate(stmt, exec) ==
    CASE stmt[1] = "LazyAddGraphNodeAttribute" ->
            LazyAddGraphNodeAttribute_evaluate(stmt, exec)
      [] stmt[1] = "LazyCreateEdge" -> LazyCreateEdge_evaluate(stmt, exec)
      [] stmt[1] = "LazyAddEdgeAttribute" -> LazyAddEdgeAttribute_evaluate(stmt, exec)

(***************************************************************************)
(* lazy_execution.rs: expressions and statements                           *)
(***************************************************************************)
\* Mutant of ast::UnscopedVariable::evaluate_lazy: a name that is not bound
\* yet is not an error.
UnscopedVariable_evaluate_lazy_lenient(name, exec) ==
    LET g == Globals_get(exec.globals, name)
        l == VariableMap_get(exec.locals, name)
    IN  IF g.found THEN Ok(exec, LazyValue_Value(g.value))
        ELSE IF l.found THEN Ok(exec, l.value)
        ELSE Ok(exec, LazyValue_Value(Null))

\* ast::UnscopedVariable::evaluate_lazy
UnscopedVariable_evaluate_lazy(name, exec) ==
    LET g == Globals_get(exec.globals, name)
        l == VariableMap_get(exec.locals, name)
    IN  IF g.found THEN Ok(exec, LazyValue_Value(g.value))
        ELSE IF l.found THEN Ok(exec, l.value)
        ELSE Err(exec, "UndefinedVariable")

RECURSIVE Expression_evaluate_lazy(_, _)
RECURSIVE Call_evaluate_lazy_parameters(_, _, _, _)
RECURSIVE ListComprehension_evaluate_lazy(_, _, _, _)

\* ast::ListComprehension::evaluate_lazy: the elements' lazy values, in order
ListComprehension_evaluate_lazy(elements, i, acc, exec) ==
    IF i > Len(elements) THEN Ok(exec, LazyList(acc))
    ELSE Try(Expression_evaluate_lazy(elements[i], exec), LAMBDA r :
             ListComprehension_evaluate_lazy(elements, i + 1, Append(acc, r.value),
                                             r.exec))

\* ast::RegexCapture::evaluate_lazy: current_regex_captures is indexed, and
\* indexing a Vec past its end panics.
RegexCapture_evaluate_lazy(match_index, exec) ==
    IF match_index < Len(exec.current_regex_captures)
    THEN Ok(exec, LazyValue_Value(String(exec.current_regex_captures[match_index + 1])))
    ELSE Err(exec, "panic")

\* Mutant of ast::ScopedVariable::evaluate_lazy: the variable is looked up
\* when the expression is executed.
ScopedVariable_evaluate_lazy_now(scope, name, exec) ==
    Try(Expression_evaluate_lazy(scope, exec), LAMBDA s :
        Try(LazyScopedVariables_evaluate(s.value, name, s.exec), LAMBDA v :
            Ok(v.exec, LazyValue_Value(v.value))))

\* ast::ScopedVariable::evaluate_lazy
ScopedVariable_evaluate_lazy(scope, name, exec) ==
    Try(Expression_evaluate_lazy(scope, exec), LAMBDA s :
        Ok(s.exec, LazyScopedVariable(s.value, name)))

\* The loop of ast::Call::evaluate_lazy: the lazy parameters, in order.
Call_evaluate_lazy_parameters(parameters, i, acc, exec) ==
    IF i > Len(parameters) THEN Ok(exec, acc)
    ELSE LET r == Expression_evaluate_lazy(parameters[i], exec)
         IN  IF r.err # "none" THEN r
             ELSE Call_evaluate_lazy_parameters(parameters, i + 1,
                                                Append(acc, r.value), r.exec)

\* Mutant of ast::Call::evaluate_lazy: the function is called at once.
Call_evaluate_lazy_now(function, parameters, exec) ==
    LET p == Call_evaluate_lazy_parameters(parameters, 1, <<>>, exec)
    IN  IF p.err # "none" THEN p
        ELSE LET r == Functions_call(function, p.exec, <<>>)
             IN  IF r.err # "none" THEN r
                 ELSE Ok(r.exec, LazyValue_Value(r.value))

\* ast::Call::evaluate_lazy
Call_evaluate_lazy(function, parameters, exec) ==
    LET p == Call_evaluate_lazy_parameters(parameters, 1, <<>>, exec)
    IN  IF p.err # "none" THEN p
        ELSE Ok(p.exec, LazyCall(function, p.value))

\* ast::Expression::evaluate_lazy
Expression_evaluate_lazy(expr, exec) ==
    CASE expr[1] = "FalseLiteral" -> Ok(exec, LazyValue_Value(Boolean(FALSE)))
      [] expr[1] = "NullLiteral" -> Ok(exec, LazyValue_Value(Null))
      [] expr[1] = "TrueLiteral" -> Ok(exec, LazyValue_Value(Boolean(TRUE)))
      [] expr[1] = "IntegerConstant" -> Ok(exec, LazyValue_Value(Integer(expr[2])))
      [] expr[1] = "StringConstant" -> Ok(exec, LazyValue_Value(String(expr[2])))
      [] expr[1] = "Capture" ->
            LET r == query_capture_value(expr[2], expr[3], exec.mat, exec.graph)
            IN  Ok([exec EXCEPT !.graph = r.graph], LazyValue_Value(r.value))
      [] expr[1] = "UnscopedVariable" -> UnscopedVariable_evaluate_lazy(expr[2], exec)
      [] expr[1] = "ScopedVariable" ->
            ScopedVariable_evaluate_lazy(expr[2], expr[3], exec)
      [] expr[1] = "Call" -> Call_evaluate_lazy(expr[2], expr[3], exec)
      [] expr[1] = "ListComprehension" ->
            ListComprehension_evaluate_lazy(expr[2], 1, <<>>, exec)
      [] expr[1] = "RegexCapture" -> RegexCapture_evaluate_lazy(expr[2], exec)

\* Mutant of ast::Expression::evaluate_eager: a scoped variable that is not
\* declared yet is taken as null instead of failing.
Expression_evaluate_eager_lenient(expr, exec) ==
    LET r == Try(Expression_evaluate_lazy(expr, exec), LAMBDA v :
                 LazyValue_evaluate(v.value, v.exec))
    IN  IF r.err = "UndefinedScopedVariable" THEN Ok(exec, Null) ELSE r

\* ast::Expression::evaluate_eager
Expression_evaluate_eager(expr, exec) ==
    Try(Expression_evaluate_lazy(expr, exec), LAMBDA r :
        LazyValue_evaluate(r.value, r.exec))

\* ast::ScopedVariable::add_lazy
ScopedVariable_add_lazy(scope, name, exec, value, mutable) ==
    IF mutable THEN Err(exec, "CannotDefineMutableScopedVariable")
    ELSE Try(Expression_evaluate_lazy(scope, exec), LAMBDA s :
             LET st == LazyStore_add(s.exec.store, value)
                 stored == [s.exec EXCEPT !.store = st.store]
                 r == LazyScopedVariables_add(stored.scoped_store, s.value, name,
                                              st.variable)
             IN  IF r.err # "none" THEN Err(stored, r.err)
                 ELSE Ok([stored EXCEPT !.scoped_store = r.scoped_store], Null))

\* ast::ScopedVariable::set_lazy
ScopedVariable_set_lazy(scope, name, exec, value) ==
    Err(exec, "CannotAssignScopedVariable")

\* Mutant of ast::UnscopedVariable::set_lazy: the thunk the local is bound to
\* is overwritten, so that earlier reads of the local see the new value.
UnscopedVariable_set_lazy_in_place(name, exec, value) ==
    IF Globals_get(exec.globals, name).found
    THEN Err(exec, "CannotAssignImmutableVariable")
    ELSE LET l == VariableMap_get(exec.locals, name)
         IN  IF ~l.found THEN Err(exec, "UndefinedVariable")
             ELSE Ok([exec EXCEPT !.store[l.value[2] + 1].value = value], Null)

\* ast::UnscopedVariable::set_lazy
UnscopedVariable_set_lazy(name, exec, value) ==
    IF Globals_get(exec.globals, name).found
    THEN Err(exec, "CannotAssignImmutableVariable")
    ELSE LET s == LazyStore_add(exec.store, value)
             r == VariableMap_set(exec.locals, name, s.variable)
             stored == [exec EXCEPT !.store = s.store]
         IN  IF r.ok THEN Ok([stored EXCEPT !.locals = r.maps], Null)
             ELSE IF VariableMap_get(stored.locals, name).found
             THEN Err(stored, "CannotAssignImmutableVariable")
             ELSE Err(stored, "UndefinedVariable")

\* Mutant of ast::UnscopedVariable::add_lazy: the local is bound to the lazy
\* value itself, not to a thunk of the store.
UnscopedVariable_add_lazy_unstored(name, exec, value, mutable) ==
    IF Globals_get(exec.globals, name).found
    THEN Err(exec, "DuplicateVariable")
    ELSE LET r == VariableMap_add(exec.locals, name, value, mutable)
         IN  IF r.ok THEN Ok([exec EXCEPT !.locals = r.maps], Null)
             ELSE Err(exec, "DuplicateVariable")

\* ast::UnscopedVariable::add_lazy
UnscopedVariable_add_lazy(name, exec, value, mutable) ==
    IF Globals_get(exec.globals, name).found
    THEN Err(exec, "DuplicateVariable")
    ELSE LET s == LazyStore_add(exec.store, value)
             r == VariableMap_add(exec.locals, name, s.variable, mutable)
             stored == [exec EXCEPT !.store = s.store]
         IN  IF r.ok THEN Ok([stored EXCEPT !.locals = r.maps], Null)
             ELSE Err(stored, "DuplicateVariable")

\* ast::Variable::add_lazy
Variable_add_lazy(variable, exec, value, mutable) ==
    IF variable[1] = "ScopedVariable"
    THEN ScopedVariable_add_lazy(variable[2], variable[3], exec, value, mutable)
    ELSE UnscopedVariable_add_lazy(variable[2], exec, value, mutable)

\* ast::Variable::set_lazy
Variable_set_lazy(variable, exec, value) ==
    IF variable[1] = "ScopedVariable"
    THEN ScopedVariable_set_lazy(variable[2], variable[3], exec, value)
    ELSE UnscopedVariable_set_lazy(variable[2], exec, value)

\* ast::DeclareMutable::execute_lazy
DeclareMutable_execute_lazy(stmt, exec) ==
    Try(Expression_evaluate_lazy(stmt[3], exec), LAMBDA r :
        Variable_add_lazy(stmt[2], r.exec, r.value, TRUE))

\* ast::Assign::execute_lazy
Assign_execute_lazy(stmt, exec) ==
    Try(Expression_evaluate_lazy(stmt[3], exec), LAMBDA r :
        Variable_set_lazy(stmt[2], r.exec, r.value))

\* ast::DeclareImmutable::execute_lazy
DeclareImmutable_execute_lazy(stmt, exec) ==
    LET r == Expression_evaluate_lazy(stmt[3], exec)
    IN  IF r.err # "none" THEN r
        ELSE Variable_add_lazy(stmt[2], r.exec, r.value, FALSE)

\* ast::CreateGraphNode::execute_lazy
CreateGraphNode_execute_lazy(stmt, exec) ==
    LET r == Graph_add_graph_node(exec.graph)
    IN  Variable_add_lazy(stmt[2], [exec EXCEPT !.graph = r.graph],
                          LazyValue_Value(GraphNode(r.ref)), FALSE)

\* The loop over self.attributes of the two attr statements' execute_lazy
RECURSIVE Attributes_evaluate_lazy(_, _, _, _)
Attributes_evaluate_lazy(attributes, i, acc, exec) ==
    IF i > Len(attributes) THEN Ok(exec, acc)
    ELSE LET r == Expression_evaluate_lazy(attributes[i].value, exec)
         IN  IF r.err # "none" THEN r
             ELSE Attributes_evaluate_lazy(attributes, i + 1,
                      Append(acc, LazyAttribute(attributes[i].name, r.value)), r.exec)

\* Mutant of ast::AddGraphNodeAttribute::execute_lazy: the statement is put
\* at the head of lazy_graph.
AddGraphNodeAttribute_execute_lazy_front(stmt, exec) ==
    LET node == Expression_evaluate_lazy(stmt[2], exec)
    IN  IF node.err # "none" THEN node
        ELSE LET a == Attributes_evaluate_lazy(stmt[3], 1, <<>>, node.exec)
             IN  IF a.err # "none" THEN a
                 ELSE Ok([a.exec EXCEPT !.lazy_graph =
                             <<LazyAddGraphNodeAttribute(node.value, a.value)>> \o @],
                         Null)

\* Mutant of ast::AddGraphNodeAttribute::execute_lazy: the statement is
\* evaluated at once instead of being put on lazy_graph.
AddGraphNodeAttribute_execute_lazy_at_once(stmt, exec) ==
    LET node == Expression_evaluate_lazy(stmt[2], exec)
    IN  IF node.err # "none" THEN node
        ELSE LET a == Attributes_evaluate_lazy(stmt[3], 1, <<>>, node.exec)
             IN  IF a.err # "none" THEN a
                 ELSE LazyAddGraphNodeAttribute_evaluate(
                          LazyAddGraphNodeAttribute(node.value, a.value), a.exec)

\* ast::AddGraphNodeAttribute::execute_lazy
AddGraphNodeAttribute_execute_lazy(stmt, exec) ==
    LET node == Expression_evaluate_lazy(stmt[2], exec)
    IN  IF node.err # "none" THEN node
        ELSE LET a == Attributes_evaluate_lazy(stmt[3], 1, <<>>, node.exec)
             IN  IF a.err # "none" THEN a
                 ELSE Ok([a.exec EXCEPT !.lazy_graph =
                             Append(@, LazyAddGraphNodeAttribute(node.value, a.value))],
                         Null)

\* Mutant of ast::CreateEdge::execute_lazy: the edge is never put on lazy_graph.
CreateEdge_execute_lazy_dropped(stmt, exec) ==
    LET source == Expression_evaluate_lazy(stmt[2], exec)
    IN  IF source.err # "none" THEN source
        ELSE LET sink == Expression_evaluate_lazy(stmt[3], source.exec)
             IN  IF sink.err # "none" THEN sink ELSE Ok(sink.exec, Null)

\* ast::CreateEdge::execute_lazy
CreateEdge_execute_lazy(stmt, exec) ==
    LET source == Expression_evaluate_lazy(stmt[2], exec)
    IN  IF source.err # "none" THEN source
        ELSE LET sink == Expression_evaluate_lazy(stmt[3], source.exec)
             IN  IF sink.err # "none" THEN sink
                 ELSE Ok([sink.exec EXCEPT !.lazy_graph =
                             Append(@, LazyCreateEdge(source.value, sink.value))], Null)

\* ast::AddEdgeAttribute::execute_lazy
AddEdgeAttribute_execute_lazy(stmt, exec) ==
    LET source == Expression_evaluate_lazy(stmt[2], exec)
    IN  IF source.err # "none" THEN source
        ELSE LET sink == Expression_evaluate_lazy(stmt[3], source.exec)
             IN  IF sink.err # "none" THEN sink
                 ELSE LET a == Attributes_evaluate_lazy(stmt[4], 1, <<>>, sink.exec)
                      IN  IF a.err # "none" THEN a
                          ELSE Ok([a.exec EXCEPT !.lazy_graph =
                                      Append(@, LazyAddEdgeAttribute(source.value,
                                                    sink.value, a.value))], Null)

\* ast::Condition::test_eager
Condition_test_eager(condition, exec) ==
    Try(Expression_evaluate_eager(condition[2], exec), LAMBDA r :
        CASE condition[1] = "Some" -> Ok(r.exec, Boolean(r.value # Null))
          [] condition[1] = "None" -> Ok(r.exec, Boolean(r.value = Null))
          [] condition[1] = "Bool" -> into_boolean(r))

RECURSIVE Statement_execute_lazy(_, _)
RECURSIVE If_conditions_lazy(_, _, _, _)
RECURSIVE If_statements_lazy(_, _, _)
RECURSIVE If_arms_lazy(_, _, _)

\* The loop of ast::If::execute_lazy over arm.conditions
If_conditions_lazy(conditions, i, result, exec) ==
    IF i > Len(conditions) THEN Ok(exec, Boolean(result))
    ELSE Try(Condition_test_eager(conditions[i], exec), LAMBDA r :
             If_conditions_lazy(conditions, i + 1, result /\ r.value[2], r.exec))

\* The loop of ast::If::execute_lazy over arm.statements
If_statements_lazy(statements, i, exec) ==
    IF i > Len(statements) THEN Ok(exec, Null)
    ELSE Try(Statement_execute_lazy(statements[i], exec), LAMBDA r :
             If_statements_lazy(statements, i + 1, r.exec))

\* The loop of ast::If::execute_lazy over self.arms
If_arms_lazy(arms, i, exec) ==
    IF i > Len(arms) THEN Ok(exec, Null)
    ELSE Try(If_conditions_lazy(arms[i].conditions, 1, TRUE, exec), LAMBDA c :
             IF c.value[2]
             THEN If_leave_arm(If_statements_lazy(arms[i].statements, 1,
                      [c.exec EXCEPT !.locals = VariableMap_nested(@)]))
             ELSE If_arms_lazy(arms, i + 1, c.exec))

\* ast::If::execute_lazy
If_execute_lazy(stmt, exec) == If_arms_lazy(stmt[2], 1, exec)

RECURSIVE Scan_statements_lazy(_, _, _)
RECURSIVE Scan_loop_lazy(_, _, _, _)

\* The loop of ast::Scan::execute_lazy over arm.statements
Scan_statements_lazy(statements, i, exec) ==
    IF i > Len(statements) THEN Ok(exec, Null)
    ELSE Try(Statement_execute_lazy(statements[i], exec), LAMBDA r :
             Scan_statements_lazy(statements, i + 1, r.exec))

\* The second half of a turn of the loop of ast::Scan::execute_lazy
Scan_arm_lazy(arms, match_string, i, exec, first) ==
    Try(Scan_statements_lazy(arms[first.index + 1].statements, 1,
            [exec EXCEPT !.locals = VariableMap_nested(@),
                         !.current_regex_captures = Scan_regex_captures(first.captures)]),
        LAMBDA r :
            Scan_loop_lazy(arms, match_string, i + first.captures.end,
                [r.exec EXCEPT !.locals = VariableMap_parent(@),
                               !.current_regex_captures = exec.current_regex_captures]))

\* The first half of the turn, for the matches m of the arms
Scan_turn_lazy(arms, match_string, i, exec, m) ==
    IF m.err # "none" THEN Err(exec, m.err)
    ELSE IF m.matches = <<>> THEN Ok(exec, Null)
    ELSE Scan_arm_lazy(arms, match_string, i, exec, Scan_sorted_first(m.matches))

\* `while i < match_string.len()` of ast::Scan::execute_lazy
Scan_loop_lazy(arms, match_string, i, exec) ==
    IF i >= Len(match_string) THEN Ok(exec, Null)
    ELSE Scan_turn_lazy(arms, match_string, i, exec,
             Scan_matches(arms, 0, SubSeq(match_string, i + 1, Len(match_string)), <<>>))

\* ast::Scan::execute_lazy
Scan_execute_lazy(stmt, exec) ==
    Try(into_string(Expression_evaluate_eager(stmt[2], exec)), LAMBDA s :
        Scan_loop_lazy(stmt[3], Chars(s.value[2]), 0, s.exec))

RECURSIVE ForIn_statements_lazy(_, _, _)
RECURSIVE ForIn_values_lazy(_, _, _, _)

\* The loop of ast::ForIn::execute_lazy over self.statements
ForIn_statements_lazy(statements, i, exec) ==
    IF i > Len(statements) THEN Ok(exec, Null)
    ELSE Try(Statement_execute_lazy(statements[i], exec), LAMBDA r :
             ForIn_statements_lazy(statements, i + 1, r.exec))

\* `for value in values` of ast::ForIn::execute_lazy
ForIn_values_lazy(stmt, values, i, exec) ==
    IF i > Len(values) THEN Ok(exec, Null)
    ELSE Try(Variable_add_lazy(stmt[2], [exec EXCEPT !.locals = VariableMap_clear(@)],
                               LazyValue_Value(values[i]), FALSE),
             LAMBDA a :
                 Try(ForIn_statements_lazy(stmt[4], 1, a.exec), LAMBDA r :
                     ForIn_values_lazy(stmt, values, i + 1, r.exec)))

\* ast::ForIn::execute_lazy
ForIn_execute_lazy(stmt, exec) ==
    Try(into_list(Expression_evaluate_eager(stmt[3], exec)), LAMBDA v :
        [ForIn_values_lazy(stmt, v.value[2], 1,
                           [v.exec EXCEPT !.locals = VariableMap_nested(@)])
            EXCEPT !.exec.locals = VariableMap_parent(@)])

\* ast::Statement::execute_lazy
Statement_execute_lazy(stmt, exec) ==
    CASE stmt[1] = "DeclareImmutable" -> DeclareImmutable_execute_lazy(stmt, exec)
      [] stmt[1] = "DeclareMutable" -> DeclareMutable_execute_lazy(stmt, exec)
      [] stmt[1] = "Assign" -> Assign_execute_lazy(stmt, exec)
      [] stmt[1] = "CreateGraphNode" -> CreateGraphNode_execute_lazy(stmt, exec)
      [] stmt[1] = "AddGraphNodeAttribute" ->
            AddGraphNodeAttribute_execute_lazy(stmt, exec)
      [] stmt[1] = "CreateEdge" -> CreateEdge_execute_lazy(stmt, exec)
      [] stmt[1] = "AddEdgeAttribute" -> AddEdgeAttribute_execute_lazy(stmt, exec)
      [] stmt[1] = "If" -> If_execute_lazy(stmt, exec)
      [] stmt[1] = "Scan" -> Scan_execute_lazy(stmt, exec)
      [] stmt[1] = "ForIn" -> ForIn_execute_lazy(stmt, exec)

(***************************************************************************)
(* The state of a File call.                                               *)
(*   graph, globals   the Graph and the Globals the host passes to         *)
(*             execute_into or execute_lazy_into                           *)
(*   mode      "eager" (execute_into) or "lazy" (execute_lazy_into)        *)
(*   phase     "idle": no call is running; "stanzas": the match loop;      *)
(*             "evaluate": the final loop over lazy_graph                  *)
(*   result    what the call returned ("none" until it returns)            *)
(*   locals, store, lazy_graph, function_parameters: the call's locals     *)
(*   mat       the match being executed                                    *)
(*   graph_stmt  the index in lazy_graph of the next statement to evaluate *)
(*   file, tree  the DSL file and the parsed tree of the call              *)
(*   stanza_index, match_index, statement_index: the positions of the      *)
(*             loops over stanzas, matches and statements                  *)
(*   steps     history: the statements executed in the matches so far      *)
(*   trace     history: the <<stanza, match, statement>> executed so far   *)
(*   evaluated history: the lazy_graph indices evaluated so far            *)
(*   seed      history: the graph as the host passed it                    *)
(*   runs      history: the mode, result and graph of the calls the host    *)
(*             has taken the result of                                     *)
(*   scoped    the call's ScopedVariables (eager)                          *)
(*   scoped_store  the call's LazyScopedVariables (lazy)                   *)
(***************************************************************************)
VARIABLES graph, globals, mode, phase, result, locals, store, lazy_graph,
          function_parameters, mat, graph_stmt, file, tree,
          stanza_index, match_index, statement_index, steps, trace, evaluated,
          seed, runs, scoped, scoped_store

vars == <<graph, globals, mode, phase, result, locals, store, lazy_graph,
          function_parameters, mat, graph_stmt, file, tree,
          stanza_index, match_index, statement_index, steps, trace, evaluated,
          seed, runs, scoped, scoped_store>>

fileVars == <<file, tree, stanza_index, match_index, statement_index, trace>>

NoMatch == [pattern_index |-> 0, captures |-> <<>>]
\* A match of a stanza whose query captures the matched node under index 0
\* (the full-match capture the parser adds).
Match(pattern_index, node) ==
    [pattern_index |-> pattern_index, captures |-> <<[index |-> 0, node |-> node]>>]

\* The ExecutionContext built from the call's state
Exec ==
    [graph |-> graph, globals |-> globals, locals |-> locals,
     current_regex_captures |-> <<>>, function_parameters |-> function_parameters,
     mat |-> mat, store |-> store, lazy_graph |-> lazy_graph,
     scoped |-> scoped, scoped_store |-> scoped_store]

\* The call's locals as execute_into and execute_lazy_into create them
CallStarts ==
    /\ locals' = VariableMap_new
    /\ store' = <<>>
    /\ lazy_graph' = <<>>
    /\ function_parameters' = <<>>
    /\ mat' = NoMatch
    /\ graph_stmt' = 0
    /\ scoped' = ScopedVariables_new
    /\ scoped_store' = LazyScopedVariables_new

\* The call returns r: its locals are dropped, the graph stays with the host.
Returns(r) ==
    /\ result' = r
    /\ phase' = "idle"
    /\ CallStarts

\* The context after a statement, written back to the call's state
Continues(exec) ==
    /\ locals' = exec.locals
    /\ store' = exec.store
    /\ lazy_graph' = exec.lazy_graph
    /\ function_parameters' = exec.function_parameters
    /\ scoped' = exec.scoped
    /\ scoped_store' = exec.scoped_store

(***************************************************************************)
(* execution.rs, lazy_execution.rs: the File and Stanza drivers, one       *)
(* action per step of their loops.                                         *)
(***************************************************************************)
\* Mutant of the check of the tree: execute_lazy_into does not make it.
RejectsTree_eager_only(m, allow_syntax_errors, has_error) ==
    m = "eager" /\ (~allow_syntax_errors) /\ has_error

\* The check of the tree at the head of the entry point m: execute_into
\* and execute_lazy_into make the same one.
RejectsTree(m, allow_syntax_errors, has_error) ==
    (~allow_syntax_errors) /\ has_error

\* File::execute_into and File::execute_lazy_into up to their loops: the host
\* calls one of them on its graph.
ExecuteInto(m, allow_syntax_errors, has_error) ==
    /\ phase = "idle"
    /\ result = "none"
    /\ mode' = m
    /\ graph' = graph
    /\ IF RejectsTree(m, allow_syntax_errors, has_error)
       THEN Returns("ParseTreeHasErrors")
       ELSE /\ phase' = "stanzas"
            /\ result' = "none"
            /\ CallStarts
    /\ UNCHANGED <<globals, steps, evaluated, seed, runs>>

\* Mutant of the head of the loop over matches: the locals are kept.
BeginMatch_keeps_locals(match) ==
    /\ phase = "stanzas"
    /\ mat' = match
    /\ graph' = IF mode = "lazy"
                THEN query_capture_value(0, "One", match, graph).graph
                ELSE graph
    /\ UNCHANGED <<globals, mode, phase, result, store, lazy_graph, locals,
                   function_parameters, graph_stmt, steps, evaluated, seed, runs,
                   scoped, scoped_store>>

\* Mutant of the head of the loop over matches: the scoped variables are
\* cleared with the locals.
BeginMatch_clears_scoped(match) ==
    /\ phase = "stanzas"
    /\ mat' = match
    /\ locals' = VariableMap_clear(locals)
    /\ scoped' = ScopedVariables_new
    /\ graph' = IF mode = "lazy"
                THEN query_capture_value(0, "One", match, graph).graph
                ELSE graph
    /\ UNCHANGED <<globals, mode, phase, result, store, lazy_graph,
                   function_parameters, graph_stmt, steps, evaluated, seed, runs,
                   scoped_store>>

\* The head of the loop over matches: Stanza::execute clears the locals;
\* Stanza::execute_lazy also registers the match's full-match capture.
BeginMatch(match) ==
    /\ phase = "stanzas"
    /\ mat' = match
    /\ locals' = VariableMap_clear(locals)
    /\ graph' = IF mode = "lazy"
                THEN query_capture_value(0, "One", match, graph).graph
                ELSE graph
    /\ UNCHANGED <<globals, mode, phase, result, store, lazy_graph,
                   function_parameters, graph_stmt, steps, evaluated, seed, runs,
                   scoped, scoped_store>>

\* Mutant of the turn of the loop over statements: an error of the statement
\* is dropped and the loop goes on.
ExecuteStatement_continues(stmt) ==
    /\ phase = "stanzas"
    /\ mode = "eager"
    /\ mat # NoMatch
    /\ LET r == Statement_execute(stmt, Exec)
       IN  /\ graph' = r.exec.graph
           /\ Continues(r.exec) /\ UNCHANGED <<phase, result, mat, graph_stmt>>
    /\ steps' = steps + 1
    /\ UNCHANGED <<globals, mode, evaluated, seed, runs>>

\* One turn of `for statement in &self.statements` in Stanza::execute
ExecuteStatement(stmt) ==
    /\ phase = "stanzas"
    /\ mode = "eager"
    /\ mat # NoMatch
    /\ LET r == Statement_execute(stmt, Exec)
       IN  /\ graph' = r.exec.graph
           /\ IF r.err # "none"
              THEN Returns(r.err)
              ELSE Continues(r.exec) /\ UNCHANGED <<phase, result, mat, graph_stmt>>
    /\ steps' = steps + 1
    /\ UNCHANGED <<globals, mode, evaluated, seed, runs>>

\* One turn of `for statement in &self.statements` in Stanza::execute_lazy
ExecuteLazyStatement(stmt) ==
    /\ phase = "stanzas"
    /\ mode = "lazy"
    /\ mat # NoMatch
    /\ LET r == Statement_execute_lazy(stmt, Exec)
       IN  /\ graph' = r.exec.graph
           /\ IF r.err # "none"
              THEN Returns(r.err)
              ELSE Continues(r.exec) /\ UNCHANGED <<phase, result, mat, graph_stmt>>
    /\ steps' = steps + 1
    /\ UNCHANGED <<globals, mode, evaluated, seed, runs>>

\* The loops over the matches are exhausted: execute_into returns Ok, and
\* execute_lazy_into goes on to its loop over lazy_graph.
FinishStanzas ==
    /\ phase = "stanzas"
    /\ IF mode = "eager"
       THEN Returns("Ok")
       ELSE /\ phase' = "evaluate"
            /\ graph_stmt' = 0
            /\ UNCHANGED <<result, locals, store, lazy_graph, function_parameters, mat,
                           scoped, scoped_store>>
    /\ UNCHANGED <<graph, globals, mode, steps, evaluated, seed, runs>>

\* One turn of `for graph_stmt in &lazy_graph` in execute_lazy_into
EvaluateGraphStmt ==
    /\ phase = "evaluate"
    /\ graph_stmt < Len(lazy_graph)
    /\ LET r == LazyStatement_evaluate(lazy_graph[graph_stmt + 1], Exec)
       IN  /\ graph' = r.exec.graph
           /\ IF r.err # "none"
              THEN Returns(r.err)
              ELSE /\ Continues(r.exec)
                   /\ graph_stmt' = graph_stmt + 1
                   /\ UNCHANGED <<phase, result, mat>>
    /\ evaluated' = Append(evaluated, graph_stmt)
    /\ UNCHANGED <<globals, mode, steps, seed, runs>>

\* The loop over lazy_graph is exhausted: execute_lazy_into returns Ok.
FinishEvaluate ==
    /\ phase = "evaluate"
    /\ graph_stmt = Len(lazy_graph)
    /\ Returns("Ok")
    /\ UNCHANGED <<graph, globals, mode, steps, evaluated, seed, runs>>

(***************************************************************************)
(* Spec: one File call, over the files each of whose stanzas matches once, *)
(* so that the statements executed are any statements.  The host passes    *)
(* an empty graph, or a graph it seeded with two nodes and globals that    *)
(* name them.  Identifiers are interned numbers: 0 is the local `n0`, 2    *)
(* and 3 are attribute names, 7 and 8 are the globals `g0` and `g1`, 9 is  *)
(* the global `filename` of the tests' harness.                            *)
(***************************************************************************)
Modes == {"eager", "lazy"}

n0 == UnscopedVariable(0)
g0 == UnscopedVariable(7)
g1 == UnscopedVariable(8)

\* Graph nodes 0 and 1; node 1 has an attribute and an edge to node 0.
SeededGraph ==
    [syntax_nodes |-> <<>>,
     graph_nodes |-> <<
        GraphNode_new,
        [outgoing_edges |-> <<<<0, [attributes |-> [values |-> <<<<3, Integer(1)>>>>]]>>>>,
         attributes |-> [values |-> <<<<2, Integer(2)>>>>]] >>]

HostInputs ==
    {[graph |-> Graph_new, globals |-> [n \in {9} |-> String("test.py")]],
     [graph |-> SeededGraph,
      globals |-> [n \in {7, 8, 9} |->
                      IF n = 9 THEN String("test.py") ELSE GraphNode(n - 7)]]}

One(name, value) == <<Attribute(name, IntegerConstant(value))>>
Two(name1, value1, name2, value2) ==
    <<Attribute(name1, IntegerConstant(value1)), Attribute(name2, IntegerConstant(value2))>>

NodeStatements == {CreateGraphNode(n0), DeclareImmutable(n0, Call("node", <<>>))}
EdgeStatements ==
    {CreateEdge(g0, g1), CreateEdge(g1, g0), CreateEdge(g0, g0), CreateEdge(g0, n0)}
NodeAttrStatements ==
    {AddGraphNodeAttribute(g0, One(2, 1)), AddGraphNodeAttribute(g0, One(2, 2)),
     AddGraphNodeAttribute(g0, One(3, 1)), AddGraphNodeAttribute(g0, Two(3, 1, 2, 2)),
     AddGraphNodeAttribute(n0, One(2, 1)), AddGraphNodeAttribute(g1, Two(3, 1, 2, 1))}
EdgeAttrStatements ==
    {AddEdgeAttribute(g0, g1, One(2, 1)), AddEdgeAttribute(g0, g1, One(3, 1)),
     AddEdgeAttribute(g0, g1, Two(3, 1, 2, 2)), AddEdgeAttribute(g1, g0, One(2, 1)),
     AddEdgeAttribute(g0, g1, <<Attribute(2, Call("node", <<>>))>>)}
Statements ==
    NodeStatements \cup EdgeStatements \cup NodeAttrStatements \cup EdgeAttrStatements

Init ==
    /\ \E input \in HostInputs :
          /\ graph = input.graph
          /\ globals = input.globals
          /\ seed = input.graph
    /\ mode = "eager"
    /\ phase = "idle"
    /\ result = "none"
    /\ locals = VariableMap_new
    /\ store = <<>>
    /\ lazy_graph = <<>>
    /\ function_parameters = <<>>
    /\ mat = NoMatch
    /\ graph_stmt = 0
    /\ file = <<>>
    /\ tree = <<>>
    /\ stanza_index = 0
    /\ match_index = 0
    /\ statement_index = 0
    /\ steps = 0
    /\ trace = <<>>
    /\ evaluated = <<>>
    /\ runs = <<>>
    /\ scoped = ScopedVariables_new
    /\ scoped_store = LazyScopedVariables_new

HostCall ==
    /\ \E m \in Modes, allow_syntax_errors \in BOOLEAN, has_error \in BOOLEAN :
          ExecuteInto(m, allow_syntax_errors, has_error)
    /\ UNCHANGED fileVars

NextMatch ==
    /\ BeginMatch(Match(0, 1))
    /\ UNCHANGED fileVars

Statement ==
    /\ steps < MaxStmts
    /\ \E stmt \in Statements : ExecuteStatement(stmt)
    /\ UNCHANGED fileVars

LazyStatement ==
    /\ steps < MaxStmts
    /\ \E stmt \in Statements : ExecuteLazyStatement(stmt)
    /\ UNCHANGED fileVars

EndOfMatches == FinishStanzas /\ UNCHANGED fileVars

GraphStatement == EvaluateGraphStmt /\ UNCHANGED fileVars

EndOfLazyGraph == FinishEvaluate /\ UNCHANGED fileVars

Next ==
    \/ HostCall
    \/ NextMatch
    \/ Statement
    \/ LazyStatement
    \/ EndOfMatches
    \/ GraphStatement
    \/ EndOfLazyGraph

Spec == Init /\ [][Next]_vars

(***************************************************************************)
(* What the properties say about a graph, stated on the lists themselves   *)
(* and not through the searches of graph.rs.                               *)
(***************************************************************************)
NodeRefs(g) == 0 .. (Len(g.graph_nodes) - 1)
HasEdge(g, a, b) ==
    /\ a \in NodeRefs(g)
    /\ \E i \in 1 .. Len(g.graph_nodes[a + 1].outgoing_edges) :
          g.graph_nodes[a + 1].outgoing_edges[i][1] = b
EdgeSet(g) == {<<a, b>> \in NodeRefs(g) \X NodeRefs(g) : HasEdge(g, a, b)}
\* The values an attribute list holds under name
ValuesOf(attributes, name) ==
    {attributes.values[i][2] : i \in {j \in 1 .. Len(attributes.values) :
                                        attributes.values[j][1] = name}}
NamesOf(attributes) ==
    {attributes.values[i][1] : i \in 1 .. Len(attributes.values)}
StrictlyAscending(entries) ==
    \A i \in 1 .. (Len(entries) - 1) : entries[i][1] < entries[i + 1][1]
\* Every attribute list of the graph: of its nodes and of its edges
AttributeLists(g) ==
    {g.graph_nodes[n + 1].attributes : n \in NodeRefs(g)}
    \cup UNION {{g.graph_nodes[n + 1].outgoing_edges[i][2].attributes :
                    i \in 1 .. Len(g.graph_nodes[n + 1].outgoing_edges)} :
                 n \in NodeRefs(g)}
\* The nodes of g are those of old, unchanged, followed by new empty nodes.
OnlyNewEmptyNodes(old, g) ==
    /\ Len(g.graph_nodes) >= Len(old.graph_nodes)
    /\ \A n \in NodeRefs(g) :
          g.graph_nodes[n + 1] =
             IF n \in NodeRefs(old) THEN old.graph_nodes[n + 1] ELSE GraphNode_new

\* C1: in every state, after any sequence of edge statements executed
\* (eager) or evaluated (lazy), failing ones included, each node's
\* outgoing-edge list is strictly ascending by sink, hence holds at most one
\* entry per sink.
C1_EdgesSortedUnique ==
    \A n \in NodeRefs(graph) : StrictlyAscending(graph.graph_nodes[n + 1].outgoing_edges)

\* C1 witness: a lazy call that failed on a duplicate edge after node 0 got
\* its edge to node 0 behind its edge to node 1.
C1_Witness ==
    /\ mode = "lazy"
    /\ result = "DuplicateEdge"
    /\ Len(evaluated) = 3
    /\ lazy_graph = <<>>
    /\ EdgeSet(graph) = {<<0, 0>>, <<0, 1>>, <<1, 0>>}

\* C2: in every state, whatever Attributes.add calls were made on a node or
\* an edge and whatever they returned, every attribute list is strictly
\* ascending by name, hence holds at most one entry per name and does not
\* depend on the order of the calls.
C2_AttributesSortedUnique ==
    \A attributes \in AttributeLists(graph) : StrictlyAscending(attributes.values)

\* C2 witness: node 0 holds both names after a call that failed on a
\* duplicate attribute.
C2_Witness ==
    /\ result = "DuplicateAttribute"
    /\ NamesOf(graph.graph_nodes[1].attributes) = {2, 3}

\* The graph node an operand of an eager statement denotes in this state
EagerRef(expr) == into_graph_node_ref(Expression_evaluate(expr, Exec))

\* C3: `edge a -> b` fails with DuplicateEdge exactly when the edge a -> b
\* exists already: not because b -> a exists, nor because a = b.  A failing
\* statement leaves every edge and every attribute as it was; a succeeding
\* one adds the edge a -> b and no other.  Stated of each eager `edge`
\* statement whose operands are graph nodes.
C3_DuplicateEdgeExactly ==
    [][\A stmt \in EdgeStatements :
          ExecuteStatement(stmt) =>
             LET a == EagerRef(stmt[2])
                 b == EagerRef(stmt[3])
             IN  (a.err = "none" /\ b.err = "none") =>
                    /\ (result' = "DuplicateEdge") <=> HasEdge(graph, a.value, b.value)
                    /\ result' = "DuplicateEdge" => graph' = graph
                    /\ result' # "DuplicateEdge" =>
                          /\ result' = "none"
                          /\ EdgeSet(graph') =
                                EdgeSet(graph) \cup {<<a.value, b.value>>}
      ]_vars

\* C3 witness: an eager call failed on a duplicate edge in a graph that
\* holds 0 -> 1, its reverse 1 -> 0 and the self-edge 0 -> 0.
C3_Witness ==
    /\ mode = "eager"
    /\ result = "DuplicateEdge"
    /\ EdgeSet(graph) = {<<0, 0>>, <<0, 1>>, <<1, 0>>}

\* The value an attribute of the enumerated statements is given
LiteralValue(attribute) == Integer(attribute.value[2])
\* The first attribute of the list whose name old holds already; 0 if none
FirstPresent(list, old) ==
    LET present == {i \in 1 .. Len(list) : list[i].name \in NamesOf(old)}
    IN  IF present = {} THEN 0
        ELSE CHOOSE i \in present : \A j \in present : i <= j

\* C4: an eager `attr (n) k1 = v1, ...` fails with DuplicateAttribute
\* exactly when n holds one of the names already; then the first such name
\* holds the value this statement gave it (the second write, not the
\* first), the names listed before it hold their new values, and the names
\* listed after it are as they were.
C4_DuplicateAttributeReplaces ==
    [][\A stmt \in NodeAttrStatements :
          ExecuteStatement(stmt) =>
             LET n == EagerRef(stmt[2])
                 list == stmt[3]
             IN  n.err = "none" =>
                    LET old == graph.graph_nodes[n.value + 1].attributes
                        new == graph'.graph_nodes[n.value + 1].attributes
                        d == FirstPresent(list, old)
                    IN  /\ (result' = "DuplicateAttribute") <=> d # 0
                        /\ d # 0 =>
                              /\ \A i \in 1 .. d :
                                    ValuesOf(new, list[i].name) = {LiteralValue(list[i])}
                              /\ \A i \in (d + 1) .. Len(list) :
                                    ValuesOf(new, list[i].name) =
                                       ValuesOf(old, list[i].name)
                              /\ NamesOf(new) =
                                    NamesOf(old) \cup {list[i].name : i \in 1 .. d}
      ]_vars

\* C4 witness: `attr (g1) 3 = 1, 2 = 1` failed on the seeded node 1, which
\* held 2 = 2: it now holds 3 = 1 and 2 = 1.
C4_Witness ==
    /\ mode = "eager"
    /\ result = "DuplicateAttribute"
    /\ graph.graph_nodes[2].attributes.values = <<<<2, Integer(1)>>, <<3, Integer(1)>>>>

\* C5: an eager `attr (a -> b) k = v, ...` fails with UndefinedEdge whenever
\* there is no edge a -> b, an edge b -> a notwithstanding; the failing
\* statement creates no edge and adds no attribute (the nodes are as they
\* were, but for a node the value's `(node)` call made).
C5_UndefinedEdge ==
    [][\A stmt \in EdgeAttrStatements :
          ExecuteStatement(stmt) =>
             LET a == EagerRef(stmt[2])
                 b == EagerRef(stmt[3])
             IN  (a.err = "none" /\ b.err = "none"
                    /\ ~HasEdge(graph, a.value, b.value)) =>
                    /\ result' = "UndefinedEdge"
                    /\ OnlyNewEmptyNodes(graph, graph')
      ]_vars

\* C5 witness: an eager call failed with UndefinedEdge on `attr (g0 -> g1)
\* 2 = (node)` while the graph held 1 -> 0 but not 0 -> 1.
C5_Witness ==
    /\ mode = "eager"
    /\ result = "UndefinedEdge"
    /\ Len(graph.graph_nodes) = Len(seed.graph_nodes) + 1
    /\ HasEdge(graph, 1, 0)
    /\ ~HasEdge(graph, 0, 1)

\* Node new is node old with, possibly, more edges and more attributes.
NodeGrows(old, new) ==
    /\ NamesOf(old.attributes) \subseteq NamesOf(new.attributes)
    /\ \A i \in 1 .. Len(old.outgoing_edges) :
          \E j \in 1 .. Len(new.outgoing_edges) :
             /\ new.outgoing_edges[j][1] = old.outgoing_edges[i][1]
             /\ NamesOf(old.outgoing_edges[i][2].attributes)
                   \subseteq NamesOf(new.outgoing_edges[j][2].attributes)

\* C7: no step removes a node or moves one to another index: the nodes the
\* graph holds, the host's among them, stay at their indices with what they
\* held.  A `node n0` statement, eager or lazy, appends exactly one empty
\* node and binds n0 to the number of nodes the graph held before.
C7_NodeIndices ==
    [][/\ Len(graph'.graph_nodes) >= Len(graph.graph_nodes)
       /\ \A n \in NodeRefs(graph) :
             NodeGrows(graph.graph_nodes[n + 1], graph'.graph_nodes[n + 1])
       /\ \A n \in NodeRefs(seed) :
             NodeGrows(seed.graph_nodes[n + 1], graph'.graph_nodes[n + 1])
       /\ ExecuteStatement(CreateGraphNode(n0)) =>
             /\ Len(graph'.graph_nodes) = Len(graph.graph_nodes) + 1
             /\ OnlyNewEmptyNodes(graph, graph')
             /\ result' = "none" =>
                   VariableMap_get(locals', 0) =
                      [found |-> TRUE, value |-> GraphNode(Len(graph.graph_nodes))]
       /\ ExecuteLazyStatement(CreateGraphNode(n0)) =>
             /\ Len(graph'.graph_nodes) = Len(graph.graph_nodes) + 1
             /\ OnlyNewEmptyNodes(graph, graph')
             /\ result' = "none" =>
                   LET bound == VariableMap_get(locals', 0)
                   IN  /\ bound.found
                       /\ \E k \in 0 .. (Len(store') - 1) :
                             /\ bound.value = LazyVariable(k)
                             /\ store'[k + 1].value =
                                   LazyValue_Value(GraphNode(Len(graph.graph_nodes)))
      ]_vars

\* C7 witness: on the host's graph of two nodes, the second `node n0` of an
\* eager call bound n0 to node 3, and the host's node 1 is as it was.
C7_Witness ==
    /\ mode = "eager"
    /\ phase = "stanzas"
    /\ Len(seed.graph_nodes) = 2
    /\ Len(graph.graph_nodes) = 4
    /\ VariableMap_get(locals, 0) = [found |-> TRUE, value |-> GraphNode(3)]
    /\ graph.graph_nodes[2] = seed.graph_nodes[2]

(***************************************************************************)
(* SpecFile: one File call on a file and a tree, through the loops of      *)
(* execute_into and execute_lazy_into.  A file is its flag and its         *)
(* stanzas; the pattern of stanza k in the file's combined query is k.  A  *)
(* tree is its error flag and the matches of the combined query in the     *)
(* cursor's order; the node a match captures is numbered by that order.    *)
(* Identifiers: 0, 1, 4 are the locals n0, n1, n2; 2, 3, 5, 6 are the      *)
(* attribute names name, parent, source, precedence.                       *)
(***************************************************************************)
\* Matches of the combined query in a tree.
MaxMatches == 3

n1 == UnscopedVariable(1)
n2 == UnscopedVariable(4)

\* The stanza of the test can_build_simple_graph; @root is capture 0.
SimpleGraphStanza ==
    [statements |-> <<
        CreateGraphNode(n0),
        AddGraphNodeAttribute(n0, <<Attribute(2, StringConstant("node0")),
                                    Attribute(5, Capture(0, "One"))>>),
        DeclareImmutable(n1, Call("node", <<>>)),
        AddGraphNodeAttribute(n1, <<Attribute(2, StringConstant("node1"))>>),
        CreateEdge(n0, n1),
        AddEdgeAttribute(n0, n1, <<Attribute(6, IntegerConstant(14))>>),
        CreateGraphNode(n2),
        AddGraphNodeAttribute(n2, <<Attribute(2, StringConstant("node2")),
                                    Attribute(3, n1)>>) >>]

\* Two stanzas: one creates its node with `node`, the other in a `let`.
NodeStanza ==
    [statements |-> <<CreateGraphNode(n0), AddGraphNodeAttribute(n0, One(2, 1))>>]
LetStanza ==
    [statements |-> <<DeclareImmutable(n0, Call("node", <<>>)),
                      AddGraphNodeAttribute(n0, One(2, 2)),
                      CreateEdge(n0, n0)>>]

Files ==
    {[allow_syntax_errors |-> allow, stanzas |-> stanzas] :
        allow \in BOOLEAN,
        stanzas \in {<<SimpleGraphStanza>>, <<NodeStanza, LetStanza>>}}

\* The sequences of at most MaxMatches matches of a query of n patterns
MatchSeqs(n) ==
    UNION {{[i \in 1 .. len |-> Match(p[i], i)] : p \in [1 .. len -> 0 .. (n - 1)]} :
              len \in 0 .. MaxMatches}

TreesFor(f) ==
    {[has_error |-> e, matches |-> ms] :
        e \in BOOLEAN, ms \in MatchSeqs(Len(f.stanzas))}

\* Mutant of the matches of a stanza's query: the cursor's order reversed.
Stanza_matches_reversed(t, k) ==
    LET own == SelectSeq(t.matches, LAMBDA m : m.pattern_index = k)
    IN  [i \in 1 .. Len(own) |-> own[Len(own) + 1 - i]]

\* cursor.matches(&self.query, ...) of Stanza::execute: the matches of
\* stanza k's own query, in the cursor's order.
Stanza_matches(t, k) == SelectSeq(t.matches, LAMBDA m : m.pattern_index = k)

\* cursor.matches(query, ...) of execute_lazy_into: the matches of the
\* combined query, in the cursor's order.
File_matches(t) == t.matches

\* The loop over a stanza's statements is at its end, or was never entered.
AtMatchEnd ==
    mat = NoMatch \/ statement_index = Len(file.stanzas[stanza_index + 1].statements)

InitFile ==
    /\ file \in Files
    /\ tree \in TreesFor(file)
    /\ \E input \in HostInputs :
          /\ graph = input.graph
          /\ globals = input.globals
          /\ seed = input.graph
    /\ mode = "eager"
    /\ phase = "idle"
    /\ result = "none"
    /\ locals = VariableMap_new
    /\ store = <<>>
    /\ lazy_graph = <<>>
    /\ function_parameters = <<>>
    /\ mat = NoMatch
    /\ graph_stmt = 0
    /\ stanza_index = 0
    /\ match_index = 0
    /\ statement_index = 0
    /\ steps = 0
    /\ trace = <<>>
    /\ evaluated = <<>>
    /\ runs = <<>>
    /\ scoped = ScopedVariables_new
    /\ scoped_store = LazyScopedVariables_new

\* The host calls execute_into or execute_lazy_into with the file and tree.
FileCall ==
    /\ \E m \in Modes : ExecuteInto(m, file.allow_syntax_errors, tree.has_error)
    /\ UNCHANGED fileVars

\* `for mat in matches` of Stanza::execute takes its next match.
EagerNextMatch ==
    /\ mode = "eager"
    /\ stanza_index < Len(file.stanzas)
    /\ AtMatchEnd
    /\ match_index < Len(Stanza_matches(tree, stanza_index))
    /\ BeginMatch(Stanza_matches(tree, stanza_index)[match_index + 1])
    /\ match_index' = match_index + 1
    /\ statement_index' = 0
    /\ UNCHANGED <<file, tree, stanza_index, trace>>

\* Stanza::execute returns Ok and `for stanza in &self.stanzas` goes on.
EagerNextStanza ==
    /\ phase = "stanzas"
    /\ mode = "eager"
    /\ stanza_index < Len(file.stanzas)
    /\ AtMatchEnd
    /\ match_index = Len(Stanza_matches(tree, stanza_index))
    /\ stanza_index' = stanza_index + 1
    /\ match_index' = 0
    /\ statement_index' = 0
    /\ mat' = NoMatch
    /\ UNCHANGED <<graph, globals, mode, phase, result, locals, store, lazy_graph,
                   function_parameters, graph_stmt, file, tree, steps, trace,
                   evaluated, seed, runs, scoped, scoped_store>>

\* The next statement of the stanza in the current match, eager
EagerFileStatement ==
    /\ mode = "eager"
    /\ mat # NoMatch
    /\ stanza_index < Len(file.stanzas)
    /\ statement_index < Len(file.stanzas[stanza_index + 1].statements)
    /\ ExecuteStatement(file.stanzas[stanza_index + 1].statements[statement_index + 1])
    /\ statement_index' = statement_index + 1
    /\ trace' = Append(trace, <<stanza_index, mat.captures[1].node, statement_index>>)
    /\ UNCHANGED <<file, tree, stanza_index, match_index>>

\* execute_into has run its last stanza.
EagerEndOfStanzas ==
    /\ mode = "eager"
    /\ stanza_index = Len(file.stanzas)
    /\ FinishStanzas
    /\ UNCHANGED fileVars

\* `for mat in matches` of execute_lazy_into takes its next match and the
\* stanza of the match's pattern.
LazyNextMatch ==
    /\ mode = "lazy"
    /\ AtMatchEnd
    /\ match_index < Len(File_matches(tree))
    /\ BeginMatch(File_matches(tree)[match_index + 1])
    /\ stanza_index' = File_matches(tree)[match_index + 1].pattern_index
    /\ match_index' = match_index + 1
    /\ statement_index' = 0
    /\ UNCHANGED <<file, tree, trace>>

\* The next statement of the stanza in the current match, lazy
LazyFileStatement ==
    /\ mode = "lazy"
    /\ mat # NoMatch
    /\ statement_index < Len(file.stanzas[stanza_index + 1].statements)
    /\ ExecuteLazyStatement(file.stanzas[stanza_index + 1].statements[statement_index + 1])
    /\ statement_index' = statement_index + 1
    /\ trace' = Append(trace, <<stanza_index, mat.captures[1].node, statement_index>>)
    /\ UNCHANGED <<file, tree, stanza_index, match_index>>

\* execute_lazy_into has run its last match.
LazyEndOfMatches ==
    /\ mode = "lazy"
    /\ AtMatchEnd
    /\ match_index = Len(File_matches(tree))
    /\ FinishStanzas
    /\ UNCHANGED fileVars

NextFile ==
    \/ FileCall
    \/ EagerNextMatch
    \/ EagerNextStanza
    \/ EagerFileStatement
    \/ EagerEndOfStanzas
    \/ LazyNextMatch
    \/ LazyFileStatement
    \/ LazyEndOfMatches
    \/ GraphStatement
    \/ EndOfLazyGraph

SpecFile == InitFile /\ [][NextFile]_vars

\* C6: when the file does not allow syntax errors and the tree's root has
\* one, the call, eager or lazy, returns ParseTreeHasErrors and nothing
\* else ever happens: no match is begun, no statement is executed or
\* evaluated, and the graph is the one the host passed, node for node.
C6_SyntaxErrorsRejected ==
    ((~file.allow_syntax_errors) /\ tree.has_error) =>
        /\ phase = "idle"
        /\ result \in {"none", "ParseTreeHasErrors"}
        /\ graph = seed
        /\ mat = NoMatch
        /\ trace = <<>>
        /\ evaluated = <<>>
        /\ lazy_graph = <<>>
        /\ store = <<>>
        /\ steps = 0

\* C6 witness: execute_lazy_into returned ParseTreeHasErrors on a tree with
\* matches and a seeded graph.
C6_Witness ==
    /\ mode = "lazy"
    /\ result = "ParseTreeHasErrors"
    /\ Len(tree.matches) > 0
    /\ Len(seed.graph_nodes) = 2
    /\ graph = seed

\* What a call of SpecFile is to execute: for each match of the tree, the
\* statements of the stanza of the match's pattern.
MatchNode(m) == m.captures[1].node
StatementsRun ==
    UNION {{<<tree.matches[j].pattern_index, MatchNode(tree.matches[j]), s>> :
               s \in 0 .. (Len(file.stanzas[tree.matches[j].pattern_index + 1].statements) - 1)} :
            j \in 1 .. Len(tree.matches)}
TraceSet == {trace[i] : i \in 1 .. Len(trace)}
\* Stanza first, then the match's place in the cursor's order, then the statement
EagerBefore(a, b) ==
    \/ a[1] < b[1]
    \/ a[1] = b[1] /\ a[2] < b[2]
    \/ a[1] = b[1] /\ a[2] = b[2] /\ a[3] < b[3]
\* The match's place in the cursor's order first, then the statement
LazyBefore(a, b) ==
    \/ a[2] < b[2]
    \/ a[2] = b[2] /\ a[3] < b[3]
\* The trace holds statements of StatementsRun only, each after all that come
\* before it.
InOrder(Before(_, _)) ==
    /\ TraceSet \subseteq StatementsRun
    /\ \A i \in 1 .. (Len(trace) - 1) : Before(trace[i], trace[i + 1])
    /\ \A t \in StatementsRun :
          \A i \in 1 .. Len(trace) : Before(t, trace[i]) => t \in TraceSet

\* C8: an eager call executes its statements stanza by stanza in declaration
\* order, within a stanza match by match in the cursor's order, and within
\* a match statement by statement in source order, skipping none; a call
\* that returns Ok has executed them all.
C8_EagerOrder ==
    mode = "eager" =>
        /\ InOrder(EagerBefore)
        /\ result = "Ok" => TraceSet = StatementsRun

\* C8 witness: an eager call returned Ok after it executed a match of a
\* later place in the cursor's order before one of an earlier place (of the
\* next stanza).
C8_Witness ==
    /\ mode = "eager"
    /\ result = "Ok"
    /\ \E i \in 1 .. (Len(trace) - 1) : trace[i][2] > trace[i + 1][2]

\* The statements of the trace that lazy execution defers, in trace order
StatementAt(t) == file.stanzas[t[1] + 1].statements[t[3] + 1]
IsDeferred(t) ==
    StatementAt(t)[1] \in {"AddGraphNodeAttribute", "CreateEdge", "AddEdgeAttribute"}
Deferred == SelectSeq(trace, IsDeferred)
NamesListed(attributes) == [i \in 1 .. Len(attributes) |-> attributes[i].name]
\* lazy is the deferred form of stmt
Defers(stmt, lazy) ==
    CASE stmt[1] = "AddGraphNodeAttribute" ->
            /\ lazy[1] = "LazyAddGraphNodeAttribute"
            /\ NamesListed(lazy[3]) = NamesListed(stmt[3])
      [] stmt[1] = "CreateEdge" -> lazy[1] = "LazyCreateEdge"
      [] stmt[1] = "AddEdgeAttribute" ->
            /\ lazy[1] = "LazyAddEdgeAttribute"
            /\ NamesListed(lazy[4]) = NamesListed(stmt[4])
LazyGraphInOrder ==
    /\ Len(lazy_graph) = Len(Deferred)
    /\ \A j \in 1 .. Len(Deferred) : Defers(StatementAt(Deferred[j]), lazy_graph[j])

\* C9: a lazy call executes the matches in the cursor's order, each in the
\* stanza of its pattern, statement by statement; lazy_graph holds the
\* deferred statements in the order they were executed; while matches are
\* executed nothing is evaluated, and no node of the graph gets an edge or
\* an attribute; evaluation starts when every match has been executed and
\* goes through lazy_graph from its first statement on, skipping none; a
\* call that returns Ok has evaluated them all.
C9_LazyOrder ==
    mode = "lazy" =>
        /\ InOrder(LazyBefore)
        /\ phase # "idle" => LazyGraphInOrder
        /\ phase = "stanzas" => evaluated = <<>> /\ OnlyNewEmptyNodes(seed, graph)
        /\ \A i \in 1 .. Len(evaluated) : evaluated[i] = i - 1
        /\ (phase = "evaluate" \/ evaluated # <<>>) => TraceSet = StatementsRun
        /\ result = "Ok" =>
              /\ TraceSet = StatementsRun
              /\ Len(evaluated) = Len(Deferred)

\* C9 witness: a lazy call returned Ok after it executed a match of stanza 1
\* before a match of stanza 0 and evaluated the statements they deferred.
C9_Witness ==
    /\ mode = "lazy"
    /\ result = "Ok"
    /\ \E i \in 1 .. (Len(trace) - 1) : trace[i][1] > trace[i + 1][1]
    /\ Len(evaluated) = Len(Deferred)
    /\ Len(evaluated) >= 4

\* The statement the next turn of the statement loop executes
CurrentStatement == file.stanzas[stanza_index + 1].statements[statement_index + 1]
IsNodeCall(expr) == expr = Call("node", <<>>)
\* The thunks of `(node)` calls that the step forces
NodeCallsForced ==
    {k \in 1 .. Len(store) :
        /\ store[k].value = LazyCall("node", <<>>)
        /\ store[k].state = Unevaluated
        /\ store'[k].state # Unevaluated}
\* The values of the attribute `name` of the nodes, by node index
NodeNames(g) ==
    [n \in 1 .. Len(g.graph_nodes) |-> ValuesOf(g.graph_nodes[n].attributes, 2)]
\* The call ran the stanza of can_build_simple_graph once on an empty graph.
SimpleGraphRun ==
    /\ file.stanzas = <<SimpleGraphStanza>>
    /\ Len(tree.matches) = 1
    /\ seed = Graph_new

\* C10: a node gets the number of nodes allocated before it.  An eager
\* `node n` or `let n = (node)` allocates when it is executed.  A lazy
\* `node n` allocates when it is executed in its match; a lazy statement
\* of another kind allocates nothing then, and an evaluation step of the
\* final phase allocates one node for each `(node)` thunk it forces, with
\* the index the thunk then holds.  So can_build_simple_graph leaves
\* node0, node2, node1 at indices 0, 1, 2 when lazy (and node0, node1,
\* node2 when eager), the edge of node0 and the parent of node2 leading to
\* node1.
C10_NodeAllocationOrder ==
    [][/\ EagerFileStatement =>
             LET stmt == CurrentStatement
                 allocates == \/ stmt[1] = "CreateGraphNode"
                              \/ stmt[1] = "DeclareImmutable" /\ IsNodeCall(stmt[3])
             IN  /\ Len(graph'.graph_nodes) =
                       Len(graph.graph_nodes) + (IF allocates THEN 1 ELSE 0)
                 /\ allocates =>
                       VariableMap_get(locals', stmt[2][2]).value =
                          GraphNode(Len(graph.graph_nodes))
       /\ LazyFileStatement =>
             LET stmt == CurrentStatement
             IN  IF stmt[1] = "CreateGraphNode"
                 THEN /\ Len(graph'.graph_nodes) = Len(graph.graph_nodes) + 1
                      /\ store'[Len(store')].value =
                            LazyValue_Value(GraphNode(Len(graph.graph_nodes)))
                 ELSE graph'.graph_nodes = graph.graph_nodes
       /\ (EvaluateGraphStmt /\ result' = "none") =>
             /\ Len(graph'.graph_nodes) =
                   Len(graph.graph_nodes) + Cardinality(NodeCallsForced)
             /\ \A k \in NodeCallsForced :
                   \E n \in NodeRefs(graph') \ NodeRefs(graph) :
                      store'[k].state = Evaluated(GraphNode(n))
       /\ (SimpleGraphRun /\ result' = "Ok") =>
             LET n1At == IF mode' = "lazy" THEN 2 ELSE 1
                 n2At == IF mode' = "lazy" THEN 1 ELSE 2
             IN  /\ Len(graph'.graph_nodes) = 3
                 /\ NodeNames(graph')[1] = {String("node0")}
                 /\ NodeNames(graph')[n1At + 1] = {String("node1")}
                 /\ NodeNames(graph')[n2At + 1] = {String("node2")}
                 /\ EdgeSet(graph') = {<<0, n1At>>}
                 /\ ValuesOf(graph'.graph_nodes[n2At + 1].attributes, 3) =
                       {GraphNode(n1At)}
      ]_vars

\* C10 witness: the lazy call of can_build_simple_graph returned Ok with
\* node1 at index 2 and node2 at index 1.
C10_Witness ==
    /\ SimpleGraphRun
    /\ mode = "lazy"
    /\ result = "Ok"
    /\ NodeNames(graph) = <<{String("node0")}, {String("node2")}, {String("node1")}>>
    /\ EdgeSet(graph) = {<<0, 2>>}

(***************************************************************************)
(* SpecRuns: the host calls the same file on the same tree, globals and    *)
(* graph several times, in either mode, and keeps what each call gave.     *)
(***************************************************************************)
MaxRuns == 2

\* Value's Display: a syntax node prints the node the graph holds for it.
Value_display(g, value) ==
    IF value[1] = "SyntaxNode"
    THEN <<"[syntax node", g.syntax_nodes[value[2]], "]">>
    ELSE value

\* Attributes::display_with: one line per attribute, in the order of values
Attributes_display(g, attributes) ==
    [i \in 1 .. Len(attributes.values) |->
        <<attributes.values[i][1], Value_display(g, attributes.values[i][2])>>]

\* Graph::display_with: every node in index order, each followed by its
\* attributes and by its edges in the order of outgoing_edges.
Graph_display(g) ==
    [n \in 1 .. Len(g.graph_nodes) |->
        <<"node", n - 1, Attributes_display(g, g.graph_nodes[n].attributes),
          [e \in 1 .. Len(g.graph_nodes[n].outgoing_edges) |->
              <<"edge", n - 1, g.graph_nodes[n].outgoing_edges[e][1],
                Attributes_display(g, g.graph_nodes[n].outgoing_edges[e][2].attributes)>>]>>]

\* A stanza whose `let` comes before its `node`, and two stanzas without a
\* call of the `node` function.
LetNodeStanza ==
    [statements |-> <<DeclareImmutable(n0, Call("node", <<>>)),
                      AddGraphNodeAttribute(n0, One(2, 2)),
                      CreateGraphNode(n1),
                      AddGraphNodeAttribute(n1, One(2, 1))>>]
EdgeStanza ==
    [statements |-> <<CreateGraphNode(n0),
                      CreateEdge(n0, n0),
                      AddEdgeAttribute(n0, n0, One(6, 2)),
                      AddGraphNodeAttribute(n0, <<Attribute(5, Capture(0, "One"))>>)>>]

RunFiles ==
    {[allow_syntax_errors |-> TRUE, stanzas |-> stanzas] :
        stanzas \in {<<SimpleGraphStanza>>, <<LetNodeStanza>>,
                     <<NodeStanza, LetStanza>>, <<NodeStanza, EdgeStanza>>}}

InitRuns ==
    /\ file \in RunFiles
    /\ tree \in {t \in TreesFor(file) : ~t.has_error}
    /\ \E input \in HostInputs :
          /\ graph = input.graph
          /\ globals = input.globals
          /\ seed = input.graph
    /\ mode = "eager"
    /\ phase = "idle"
    /\ result = "none"
    /\ locals = VariableMap_new
    /\ store = <<>>
    /\ lazy_graph = <<>>
    /\ function_parameters = <<>>
    /\ mat = NoMatch
    /\ graph_stmt = 0
    /\ stanza_index = 0
    /\ match_index = 0
    /\ statement_index = 0
    /\ steps = 0
    /\ trace = <<>>
    /\ evaluated = <<>>
    /\ runs = <<>>
    /\ scoped = ScopedVariables_new
    /\ scoped_store = LazyScopedVariables_new

\* Mutant of the host's next call: it passes the graph the last call left.
HostTakesResult_keeps_graph ==
    /\ phase = "idle"
    /\ result # "none"
    /\ Len(runs) < MaxRuns
    /\ runs' = Append(runs, [mode |-> mode, result |-> result, graph |-> graph])
    /\ result' = "none"
    /\ stanza_index' = 0
    /\ match_index' = 0
    /\ statement_index' = 0
    /\ steps' = 0
    /\ trace' = <<>>
    /\ evaluated' = <<>>
    /\ UNCHANGED <<graph, globals, mode, phase, locals, store, lazy_graph,
                   function_parameters, mat, graph_stmt, file, tree, seed, scoped,
                   scoped_store>>

\* The host takes the call's result and its graph, and makes ready to call
\* again with a graph equal to the one it passed before.
HostTakesResult ==
    /\ phase = "idle"
    /\ result # "none"
    /\ Len(runs) < MaxRuns
    /\ runs' = Append(runs, [mode |-> mode, result |-> result, graph |-> graph])
    /\ graph' = seed
    /\ result' = "none"
    /\ stanza_index' = 0
    /\ match_index' = 0
    /\ statement_index' = 0
    /\ steps' = 0
    /\ trace' = <<>>
    /\ evaluated' = <<>>
    /\ UNCHANGED <<globals, mode, phase, locals, store, lazy_graph,
                   function_parameters, mat, graph_stmt, file, tree, seed, scoped,
                   scoped_store>>

\* A call is made only while the host still wants a result.
RunCall == Len(runs) < MaxRuns /\ NextFile

NextRuns == RunCall \/ HostTakesResult

SpecRuns == InitRuns /\ [][NextRuns]_vars

\* The pairs of an eager and a lazy call among the calls made
EagerLazyRuns ==
    {p \in (1 .. Len(runs)) \X (1 .. Len(runs)) :
        runs[p[1]].mode = "eager" /\ runs[p[2]].mode = "lazy"}

\* The file calls the `node` function in a `let`.
CallsNodeFunction(f) ==
    \E k \in 1 .. Len(f.stanzas) : \E i \in 1 .. Len(f.stanzas[k].statements) :
        LET stmt == f.stanzas[k].statements[i]
        IN  stmt[1] \in {"DeclareImmutable", "DeclareMutable", "Assign"}
            /\ stmt[3][1] = "Call"

\* The cursor gives the matches stanza by stanza, in the order of the file.
MatchesGroupedByStanza(t) ==
    \A i \in 1 .. (Len(t.matches) - 1) :
        t.matches[i].pattern_index <= t.matches[i + 1].pattern_index

MaxNodes == 2

id == Capture(0, "One")
NodeCall == Call("node", <<>>)
Stanza(statements) == [statements |-> statements]

\* variable_let_executed_once, variable_set_executed_once and a `let`
\* referenced through another variable
LetOnceStanza ==
    Stanza(<<DeclareImmutable(n0, NodeCall),
             AddGraphNodeAttribute(NodeCall, <<Attribute(10, n0)>>),
             AddGraphNodeAttribute(NodeCall, <<Attribute(10, n0)>>)>>)
SetOnceStanza ==
    Stanza(<<DeclareMutable(n0, NullLiteral),
             Assign(n0, NodeCall),
             AddGraphNodeAttribute(NodeCall, <<Attribute(10, n0)>>),
             AddGraphNodeAttribute(NodeCall, <<Attribute(10, n0)>>)>>)
LetChainStanza ==
    Stanza(<<DeclareImmutable(n0, NodeCall),
             DeclareImmutable(n1, n0),
             AddGraphNodeAttribute(n1, <<Attribute(10, n0)>>),
             AddGraphNodeAttribute(NodeCall, <<Attribute(10, n1)>>)>>)

\* Two locals each defined as the other
CycleStanza ==
    Stanza(<<DeclareImmutable(n0, n1), DeclareImmutable(n1, n0)>>)

\* A scoped variable defined as itself, and a local and a scoped variable
\* each defined as the other, forced through the local or through the
\* scoped variable
ScopedCycleStanza ==
    Stanza(<<DeclareImmutable(ScopedVariable(id, 11), ScopedVariable(id, 11)),
             AddGraphNodeAttribute(NodeCall, <<Attribute(10, ScopedVariable(id, 11))>>)>>)
MixedCycleStanza(reference) ==
    Stanza(<<DeclareImmutable(n0, ScopedVariable(id, 12)),
             DeclareImmutable(ScopedVariable(id, 12), n0),
             AddGraphNodeAttribute(NodeCall, <<Attribute(10, reference)>>)>>)

\* The stanzas of scoped_variables_carry_across_stanzas and
\* scoped_variables_can_appear_out_of_order
DeclareNodeStanza ==
    Stanza(<<DeclareImmutable(ScopedVariable(id, 13), NodeCall)>>)
NameNodeStanza ==
    Stanza(<<AddGraphNodeAttribute(ScopedVariable(id, 13),
                 <<Attribute(2, Call("source-text", <<id>>))>>)>>)

\* A stanza that declares @id.x and @id.y and one that reads them
DeclareXYStanza ==
    Stanza(<<DeclareImmutable(ScopedVariable(id, 11), IntegerConstant(1)),
             DeclareImmutable(ScopedVariable(id, 12), IntegerConstant(2))>>)
ReadXYStanza ==
    Stanza(<<DeclareImmutable(n0, ScopedVariable(id, 12)),
             DeclareImmutable(n1, ScopedVariable(id, 11))>>)

\* `var` and `set` of a scoped variable
VarScopedStanza ==
    Stanza(<<DeclareMutable(ScopedVariable(id, 11), IntegerConstant(1)),
             Assign(ScopedVariable(id, 11), IntegerConstant(2)),
             DeclareImmutable(n0, ScopedVariable(id, 11))>>)
LetSetScopedStanza ==
    Stanza(<<DeclareImmutable(ScopedVariable(id, 11), IntegerConstant(1)),
             Assign(ScopedVariable(id, 11), IntegerConstant(2))>>)
SetUndeclaredStanza ==
    Stanza(<<Assign(ScopedVariable(id, 11), IntegerConstant(2))>>)

\* `if some @id.x` between two declarations on @id, in one stanza and over
\* two stanzas
IfSomeX(statements) ==
    If(<<IfArm(<<ConditionSome(ScopedVariable(id, 11))>>, statements)>>)
DeclareTestDeclareStanza ==
    Stanza(<<DeclareImmutable(ScopedVariable(id, 11), IntegerConstant(1)),
             IfSomeX(<<DeclareImmutable(n0, IntegerConstant(1))>>),
             DeclareImmutable(ScopedVariable(id, 12), IntegerConstant(2))>>)
DeclareTestStanza ==
    Stanza(<<DeclareImmutable(ScopedVariable(id, 11), IntegerConstant(1)),
             IfSomeX(<<>>)>>)
DeclareYStanza ==
    Stanza(<<DeclareImmutable(ScopedVariable(id, 12), IntegerConstant(2))>>)

VarFiles ==
    {[allow_syntax_errors |-> TRUE, stanzas |-> stanzas] :
        stanzas \in {<<LetOnceStanza>>, <<SetOnceStanza>>, <<LetChainStanza>>,
                     <<CycleStanza>>, <<ScopedCycleStanza>>,
                     <<MixedCycleStanza(n0)>>,
                     <<MixedCycleStanza(ScopedVariable(id, 12))>>,
                     <<DeclareNodeStanza, NameNodeStanza>>,
                     <<NameNodeStanza, DeclareNodeStanza>>,
                     <<DeclareXYStanza, ReadXYStanza>>,
                     <<ReadXYStanza, DeclareXYStanza>>,
                     <<VarScopedStanza>>, <<LetSetScopedStanza>>,
                     <<SetUndeclaredStanza>>,
                     <<DeclareTestDeclareStanza>>,
                     <<DeclareTestStanza, DeclareYStanza>>}}

\* The matches of a tree: every pattern matches some of the identifiers
\* 1 .. MaxNodes, each once and in the order of the source; the cursor of
\* the combined query interleaves the patterns in any way.
Ascending(ms) ==
    \A i, j \in 1 .. Len(ms) :
        (i < j /\ ms[i].pattern_index = ms[j].pattern_index) =>
            MatchNode(ms[i]) < MatchNode(ms[j])
VarMatchSeqs(n) ==
    UNION {{ms \in [1 .. len -> {Match(p, node) : p \in 0 .. (n - 1), node \in 1 .. MaxNodes}] :
               Ascending(ms)} :
           len \in 0 .. (n * MaxNodes)}
VarTreesFor(f) ==
    {[has_error |-> FALSE, matches |-> ms] : ms \in VarMatchSeqs(Len(f.stanzas))}

InitVars ==
    /\ file \in VarFiles
    /\ tree \in VarTreesFor(file)
    /\ graph = Graph_new
    /\ globals = [n \in {9} |-> String("test.py")]
    /\ seed = Graph_new
    /\ mode = "eager"
    /\ phase = "idle"
    /\ result = "none"
    /\ locals = VariableMap_new
    /\ store = <<>>
    /\ lazy_graph = <<>>
    /\ function_parameters = <<>>
    /\ mat = NoMatch
    /\ graph_stmt = 0
    /\ stanza_index = 0
    /\ match_index = 0
    /\ statement_index = 0
    /\ steps = 0
    /\ trace = <<>>
    /\ evaluated = <<>>
    /\ runs = <<>>
    /\ scoped = ScopedVariables_new
    /\ scoped_store = LazyScopedVariables_new

SpecVars == InitVars /\ [][NextFile]_vars

\* The number of elements of seq that satisfy Test
Count(seq, Test(_)) == Len(SelectSeq(seq, Test))
IsEvaluatedNodeCall(thunk) ==
    thunk.value = LazyCall("node", <<>>) /\ thunk.state[1] = "Evaluated"
\* The statements of lazy_graph evaluated so far whose node is itself a
\* `(node)` call
EvaluatedDirectCalls ==
    Cardinality({i \in 1 .. graph_stmt : lazy_graph[i][2] = LazyCall("node", <<>>)})
\* The values of the attribute `ref` in the graph
RefsOf(g) ==
    UNION {ValuesOf(g.graph_nodes[n].attributes, 10) : n \in 1 .. Len(g.graph_nodes)}

\* C13: while a lazy call evaluates lazy_graph, the `(node)` expression bound
\* to a local by `let`, `var` or `set` has been evaluated once if the
\* variable was referenced, however often and through whatever variables,
\* and not at all otherwise: the graph has one node for every forced thunk of
\* a `(node)` binding and one for every evaluated statement whose node is
\* itself a `(node)` call, and every reference gave the node the thunk
\* holds.
C13_BoundExpressionEvaluatedOnce ==
    (mode = "lazy" /\ phase = "evaluate") =>
        /\ Len(graph.graph_nodes) = Count(store, IsEvaluatedNodeCall) + EvaluatedDirectCalls
        /\ RefsOf(graph) \subseteq
              {store[k].state[2] : k \in {j \in 1 .. Len(store) : IsEvaluatedNodeCall(store[j])}}
        /\ \A j, k \in 1 .. Len(store) :
              (IsEvaluatedNodeCall(store[j]) /\ IsEvaluatedNodeCall(store[k]) /\ j # k) =>
                  store[j].state[2] # store[k].state[2]

\* variable_set_executed_once has run on one match: both attributes
\* reference node 1, the one node of `set x = (node)`, and the graph has the
\* three nodes the test expects.
C13_Witness ==
    /\ mode = "lazy"
    /\ phase = "evaluate"
    /\ file.stanzas = <<SetOnceStanza>>
    /\ Len(tree.matches) = 1
    /\ graph_stmt = Len(lazy_graph)
    /\ Len(graph.graph_nodes) = 3
    /\ ValuesOf(graph.graph_nodes[1].attributes, 10) = {GraphNode(1)}
    /\ ValuesOf(graph.graph_nodes[3].attributes, 10) = {GraphNode(1)}
    /\ graph.graph_nodes[2] = GraphNode_new

\* The call has returned from the file of the one stanza, which had a match.
Returned(stanza) ==
    /\ file.stanzas = <<stanza>>
    /\ Len(tree.matches) > 0
    /\ phase = "idle"
    /\ result # "none"

\* C14 as stated: the lazy call of `let a = b` `let b = a`, a and b locals,
\* fails with RecursivelyDefinedVariable.
C14_CycleRecursivelyDefined ==
    (mode = "lazy" /\ Returned(CycleStanza)) => result = "RecursivelyDefinedVariable"

\* C14, amended: the lazy call of `let a = b` `let b = a` fails with
\* UndefinedVariable, at `let a = b` in the first match: it executes no other
\* statement and defers none.
C14_CycleUndefinedVariable ==
    (mode = "lazy" /\ Returned(CycleStanza)) =>
        /\ result = "UndefinedVariable"
        /\ trace = <<<<0, MatchNode(tree.matches[1]), 0>>>>
        /\ evaluated = <<>>
        /\ graph.graph_nodes = <<>>

C14_Witness ==
    /\ mode = "lazy"
    /\ Returned(CycleStanza)
    /\ result = "UndefinedVariable"

\* The context with thunk k of the store being evaluated
WhileEvaluating(k) == [Exec EXCEPT !.store[k].state = Evaluating]
\* The lookups of scoped variables registered with thunk k as their handle
LookupsOf(k) ==
    {scoped_store.pending[i] :
        i \in {j \in 1 .. Len(scoped_store.pending) :
                  scoped_store.pending[j].variable = LazyVariable(k - 1)}}

\* C15: in a lazy call the memo slot of a thunk is Unevaluated until the
\* thunk is forced and Evaluated(v) from then on, with the same v and the
\* same lazy value; it is Evaluating only while the thunk is being forced.
\* Forcing an Evaluated(v) thunk gives v and changes nothing; forcing a thunk
\* that is being evaluated fails with RecursivelyDefinedVariable, and with
\* RecursivelyDefinedScopedVariable when it is forced through the lookup of
\* the scoped variable it was registered for.  So the call of a scoped
\* variable defined as itself, or of a local and a scoped variable defined as
\* each other and forced through the scoped one, fails with
\* RecursivelyDefinedScopedVariable, and forced through the local with
\* RecursivelyDefinedVariable.
C15_MemoSlot ==
    [][mode = "lazy" =>
        /\ \A k \in 1 .. Len(store) :
              /\ store[k].state[1] \in {"Unevaluated", "Evaluated"}
              /\ store[k].state[1] = "Evaluated" =>
                    LazyStore_evaluate(k - 1, Exec) = Ok(Exec, store[k].state[2])
              /\ LazyStore_evaluate(k - 1, WhileEvaluating(k)) =
                    Err(WhileEvaluating(k), "RecursivelyDefinedVariable")
              /\ \A lookup \in LookupsOf(k) :
                    LazyScopedVariables_evaluate(lookup.scope, lookup.name,
                                                 WhileEvaluating(k)).err =
                        "RecursivelyDefinedScopedVariable"
        /\ phase' # "idle" =>
              /\ Len(store') >= Len(store)
              /\ \A k \in 1 .. Len(store) :
                    /\ store'[k].value = store[k].value
                    /\ store[k].state[1] = "Evaluated" => store'[k].state = store[k].state
              /\ \A k \in (Len(store) + 1) .. Len(store') : store'[k].state = Unevaluated
        /\ (phase = "evaluate" /\ phase' = "idle" /\ Len(tree.matches) > 0) =>
              /\ file.stanzas = <<ScopedCycleStanza>> =>
                    result' = "RecursivelyDefinedScopedVariable"
              /\ file.stanzas = <<MixedCycleStanza(ScopedVariable(id, 12))>> =>
                    result' = "RecursivelyDefinedScopedVariable"
              /\ file.stanzas = <<MixedCycleStanza(n0)>> =>
                    result' = "RecursivelyDefinedVariable"
      ]_vars

\* The second attribute of variable_let_executed_once has been evaluated: it
\* forced the thunk of x, which the first one had left Evaluated.
C15_Witness ==
    /\ mode = "lazy"
    /\ phase = "evaluate"
    /\ file.stanzas = <<LetOnceStanza>>
    /\ graph_stmt = 2
    /\ store[1].state = Evaluated(GraphNode(1))

\* The syntax nodes the tree has a match of pattern k for
NodesMatched(t, k) ==
    {MatchNode(t.matches[i]) : i \in {j \in 1 .. Len(t.matches) :
                                         t.matches[j].pattern_index = k}}
\* The elements of a set of numbers, ascending
RECURSIVE SortedSeq(_)
SortedSeq(set) ==
    IF set = {} THEN <<>>
    ELSE LET least == CHOOSE x \in set : \A y \in set : x <= y
         IN  <<least>> \o SortedSeq(set \ {least})
\* The display of a graph of one node per identifier, numbered in the order
\* the identifiers come in the source, each with its text as its name
NamedNodesDisplay(identifiers) ==
    [i \in 1 .. Len(identifiers) |->
        <<"node", i - 1, <<<<2, String(SourceText(identifiers[i]))>>>>, <<>>>>]

\* C16: the lazy call of the file of the two stanzas `let @id.node = (node)`
\* and `attr (@id.node) name = (source-text @id)`, both matching the same
\* identifiers, succeeds whichever stanza the file declares first and in
\* whatever order the cursor gives their matches, and leaves the same
\* display: one node per identifier, numbered in the order of the source,
\* named by the identifier's text.
C16_StanzaOrderIndependent ==
    (/\ mode = "lazy"
     /\ file.stanzas \in {<<DeclareNodeStanza, NameNodeStanza>>,
                          <<NameNodeStanza, DeclareNodeStanza>>}
     /\ NodesMatched(tree, 0) = NodesMatched(tree, 1)
     /\ phase = "idle"
     /\ result # "none") =>
        /\ result = "Ok"
        /\ Graph_display(graph) = NamedNodesDisplay(SortedSeq(NodesMatched(tree, 0)))

\* scoped_variables_can_appear_out_of_order has succeeded on two
\* identifiers, the first match being one of the stanza that reads.
C16_Witness ==
    /\ mode = "lazy"
    /\ file.stanzas = <<NameNodeStanza, DeclareNodeStanza>>
    /\ NodesMatched(tree, 0) = {1, 2}
    /\ NodesMatched(tree, 1) = {1, 2}
    /\ tree.matches[1].pattern_index = 0
    /\ result = "Ok"
    /\ Len(graph.graph_nodes) = 2

\* The step is a turn of the loop over the statements of a match
ExecutesStatement == mat # NoMatch /\ Len(trace') = Len(trace) + 1
\* The scoped variables a statement reads first, if it reads one: those that
\* are the value of a `let`, `var` or `set` or the node of an `attr`
ScopedReads(stmt) ==
    CASE stmt[1] \in {"DeclareImmutable", "DeclareMutable", "Assign"}
            /\ stmt[3][1] = "ScopedVariable" -> {stmt[3]}
      [] stmt[1] = "AddGraphNodeAttribute" /\ stmt[2][1] = "ScopedVariable" -> {stmt[2]}
      [] OTHER -> {}
\* The values of the `let @id.name = value` the call has executed in matches
\* of the syntax node
LetDeclared(node, name) ==
    {StatementAt(trace[i])[3] :
        i \in {j \in 1 .. Len(trace) :
                  /\ trace[j][2] = node
                  /\ StatementAt(trace[j])[1] = "DeclareImmutable"
                  /\ StatementAt(trace[j])[2] = ScopedVariable(id, name)}}
\* A `var @id.name` or `set @id.name` has been executed in a match of the node
VarOrSetExecuted(node, name) ==
    \E i \in 1 .. Len(trace) :
        /\ trace[i][2] = node
        /\ StatementAt(trace[i])[1] \in {"DeclareMutable", "Assign"}
        /\ StatementAt(trace[i])[2] = ScopedVariable(id, name)
\* value is what the expression of a declaration evaluates to
ValueOf(expr, value) ==
    IF expr[1] = "IntegerConstant" THEN value = Integer(expr[2])
    ELSE value[1] = "GraphNode"

\* C17: in an eager call, a statement that reads `@id.x` in a match of the
\* syntax node n fails with UndefinedVariable when no `let @id.x = e` has been
\* executed before it in a match of n, whatever the stanza of that match, and
\* otherwise goes on with the value of that e: a `let y = @id.x` binds y to it.
\* Declarations on another node or of another name do not count.
C17_EagerScopedRead ==
    [][(mode = "eager" /\ ExecutesStatement) =>
        \A read \in ScopedReads(CurrentStatement) :
            (~VarOrSetExecuted(MatchNode(mat), read[3])) =>
                IF LetDeclared(MatchNode(mat), read[3]) = {}
                THEN result' = "UndefinedVariable"
                ELSE /\ result' # "UndefinedVariable"
                     /\ scoped[MatchNode(mat)] = scoped'[MatchNode(mat)]
                     /\ \A e \in LetDeclared(MatchNode(mat), read[3]) :
                           ValueOf(e, VariableMap_get(scoped[MatchNode(mat)],
                                                      read[3]).value)
                     /\ (CurrentStatement[1] = "DeclareImmutable"
                         /\ CurrentStatement[2][1] = "UnscopedVariable") =>
                           VariableMap_get(locals', CurrentStatement[2][2]) =
                              [found |-> TRUE,
                               value |-> VariableMap_get(scoped[MatchNode(mat)],
                                                         read[3]).value]
      ]_vars

\* The eager call reads, in a match of the second stanza, the @id.y and the
\* @id.x that a match of the first stanza declared on node 2.
C17_Witness ==
    /\ mode = "eager"
    /\ file.stanzas = <<DeclareXYStanza, ReadXYStanza>>
    /\ stanza_index = 1
    /\ mat # NoMatch
    /\ MatchNode(mat) = 2
    /\ VariableMap_get(locals, 0) = [found |-> TRUE, value |-> Integer(2)]
    /\ VariableMap_get(locals, 1) = [found |-> TRUE, value |-> Integer(1)]

\* The step executes a statement of this kind whose target is scoped
ExecutesOnScoped(kind) ==
    /\ ExecutesStatement
    /\ CurrentStatement[1] = kind
    /\ CurrentStatement[2][1] = "ScopedVariable"

\* C18 as stated: `var @n.x = e` fails with CannotDefineMutableScopedVariable,
\* in an eager call and in a lazy one, and defines no variable.
C18_VarScopedRejected ==
    [][ExecutesOnScoped("DeclareMutable") =>
        /\ result' = "CannotDefineMutableScopedVariable"
        /\ scoped' = ScopedVariables_new
        /\ scoped_store' = LazyScopedVariables_new
      ]_vars

\* C19 as stated: `set @n.x = e` fails with CannotAssignScopedVariable, in an
\* eager call and in a lazy one, whatever the state of @n.x, so that no step
\* changes the value of a scoped variable that is declared.
C19_SetScopedRejected ==
    [][/\ ExecutesOnScoped("Assign") => result' = "CannotAssignScopedVariable"
       /\ \A node \in DOMAIN scoped : \A name \in DOMAIN scoped[node][1] :
             (node \in DOMAIN scoped' /\ name \in DOMAIN scoped'[node][1]) =>
                 scoped'[node][1][name].value = scoped[node][1][name].value
      ]_vars

\* The syntax nodes in whose matches the call has executed an `if` that
\* tests a scoped variable: the lazy call forces the lookup to test it.
LookupForced ==
    {trace[i][2] : i \in {j \in 1 .. Len(trace) : StatementAt(trace[j])[1] = "If"}}

\* C20: in a lazy call, once the lookup of a scoped variable of a syntax
\* node has been forced, by an `if` that tests it in any earlier match of the
\* node, every `let @n.x = e` for that node fails with
\* VariableScopesAlreadyForced and registers nothing; a `let` for a node no
\* lookup was forced for does not fail so.
C20_AddAfterForced ==
    [][mode = "lazy" =>
        /\ phase = "stanzas" => scoped_store.forced = LookupForced
        /\ ExecutesOnScoped("DeclareImmutable") =>
              IF MatchNode(mat) \in LookupForced
              THEN /\ result' = "VariableScopesAlreadyForced"
                   /\ scoped_store' = LazyScopedVariables_new
              ELSE result' # "VariableScopesAlreadyForced"
      ]_vars

\* The lazy call has failed at `let @id.y = 2` in a match of node 1, after a
\* match of the other stanza tested @id.x on node 1.
C20_Witness ==
    /\ mode = "lazy"
    /\ file.stanzas = <<DeclareTestStanza, DeclareYStanza>>
    /\ result = "VariableScopesAlreadyForced"
    /\ Len(trace) = 3
    /\ trace[3] = <<1, 1, 0>>

(***************************************************************************)
(* SpecCtl: one File call over files of locals, globals and the control    *)
(* statements `if`, `for` and `scan`.  The query of a stanza captures,     *)
(* besides the matched identifier (index 0), the nodes of a quantified     *)
(* capture (index 1): none, one or two nodes, the same in every match of   *)
(* the tree.  The identifier 14 is the global `limit` the host passes.     *)
(***************************************************************************)
limit == UnscopedVariable(14)
filename == UnscopedVariable(9)

\* C21: a stanza that declares n0, n1 and n2 in every match; a local of one
\* stanza read in another
RedeclareStanza ==
    Stanza(<<DeclareImmutable(n0, IntegerConstant(1)),
             DeclareMutable(n1, IntegerConstant(2)),
             CreateGraphNode(n2)>>)
DeclareLocalStanza == Stanza(<<DeclareImmutable(n0, IntegerConstant(1))>>)
ReadLocalStanza == Stanza(<<DeclareImmutable(n1, n0)>>)

\* C22: the global `limit` is read, then declared or assigned
OnGlobal ==
    {DeclareImmutable(limit, IntegerConstant(1)),
     DeclareMutable(limit, IntegerConstant(1)),
     CreateGraphNode(limit),
     Assign(limit, IntegerConstant(1)),
     ForIn(limit, ListComprehension(<<IntegerConstant(1)>>), <<>>),
     ForIn(limit, ListComprehension(<<>>), <<>>)}
GlobalStanza(statement) == Stanza(<<DeclareImmutable(n0, limit), statement>>)

\* C23: `set n0 = 2` after a `var`, in an arm after a `var`, after a `let`,
\* after a `node`, in the `for` of n0, and with no declaration
set2 == Assign(n0, IntegerConstant(2))
ReadN0 == <<CreateGraphNode(n2), AddGraphNodeAttribute(n2, <<Attribute(2, n0)>>)>>
VarSetStanza == Stanza(<<DeclareMutable(n0, IntegerConstant(1)), set2>> \o ReadN0)
VarSetInArmStanza ==
    Stanza(<<DeclareMutable(n0, IntegerConstant(1)),
             If(<<IfArm(<<ConditionBool(TrueLiteral)>>, <<set2>>)>>)>> \o ReadN0)
LetSetStanza == Stanza(<<DeclareImmutable(n0, IntegerConstant(1)), set2>> \o ReadN0)
NodeSetStanza == Stanza(<<CreateGraphNode(n0), set2>>)
ForSetStanza ==
    Stanza(<<ForIn(n0, ListComprehension(<<IntegerConstant(1)>>), <<set2>>)>>)
SetOnlyStanza == Stanza(<<DeclareImmutable(n1, IntegerConstant(1)), set2>>)

\* C24, C25: `scan "subject" { /re1/ {...} /re2/ {...} }`, where the body of
\* arm k is `node n0; attr (n0) name = $0, parent = k`
MaxSubject == 3
Subjects == {Str(chars) : chars \in UNION {[1 .. n -> Alphabet] : n \in 0 .. MaxSubject}}
Literal(s) == Regex(<<s>>, FALSE)
ArmLists ==
    {<<Literal("a"), Literal("ab")>>,
     <<Literal("ab"), Literal("a")>>,
     <<Literal("b"), Literal("ab")>>,
     <<Literal("b"), Regex(<<"a", "">>, FALSE)>>,
     <<Literal(""), Literal("a")>>}
ArmBody(k) ==
    <<CreateGraphNode(n0),
      AddGraphNodeAttribute(n0, <<Attribute(2, RegexCapture(0)),
                                  Attribute(3, IntegerConstant(k))>>)>>
ScanStanza(subject, regexes) ==
    Stanza(<<Scan(StringConstant(subject),
                  [k \in 1 .. Len(regexes) |-> ScanArm(regexes[k], ArmBody(k))])>>)
ScanStanzas == {ScanStanza(subject, regexes) : subject \in Subjects, regexes \in ArmLists}

\* C26, C27: `var n0 = 0; if c1, c2 { set n0 = 1 } elif c3 { set n0 = 2 }`,
\* with and without `else { set n0 = 3 }`.  A condition is true or false,
\* with a `(node)` call or without one, or is not a boolean.
Conditions ==
    {ConditionSome(NodeCall), ConditionNone(NodeCall),
     ConditionBool(TrueLiteral), ConditionBool(FalseLiteral),
     ConditionBool(IntegerConstant(1))}
SetArm(conditions, k) == IfArm(conditions, <<Assign(n0, IntegerConstant(k))>>)
IfStanza(c1, c2, c3, else) ==
    Stanza(<<DeclareMutable(n0, IntegerConstant(0)),
             If(<<SetArm(<<c1, c2>>, 1), SetArm(<<c3>>, 2)>>
                \o (IF else THEN <<SetArm(<<>>, 3)>> ELSE <<>>))>>)
IfStanzas ==
    {IfStanza(c1, c2, c3, else) : c1 \in Conditions, c2 \in Conditions,
                                  c3 \in Conditions, else \in BOOLEAN}

\* C28: `for n1 in value { node n0; attr (n0) name = n1 }`, alone or before
\* a `let n2 = n0` or a `let n2 = n1`
Numbers(ns) == ListComprehension([i \in 1 .. Len(ns) |-> IntegerConstant(ns[i])])
ForValues ==
    {Numbers(<<>>), Numbers(<<1>>), Numbers(<<1, 2>>), Numbers(<<2, 1>>),
     IntegerConstant(5), StringConstant("a"), NullLiteral,
     Capture(1, "ZeroOrMore")}
ForBody == <<CreateGraphNode(n0), AddGraphNodeAttribute(n0, <<Attribute(2, n1)>>)>>
ForStanza(value, after) == Stanza(<<ForIn(n1, value, ForBody)>> \o after)
ForStanzas ==
    {ForStanza(value, after) :
        value \in ForValues,
        after \in {<<>>, <<DeclareImmutable(n2, n0)>>, <<DeclareImmutable(n2, n1)>>}}

\* C29: `let n0 = @id` and `let n0 = @c` for a capture `?`, `*` or `+`
CaptureLetStanza(capture) == Stanza(<<DeclareImmutable(n0, capture)>>)
CaptureLetStanzas ==
    {CaptureLetStanza(capture) :
        capture \in {id, Capture(1, "ZeroOrOne"), Capture(1, "ZeroOrMore"),
                     Capture(1, "OneOrMore")}}

\* C30: `scan "ab" { /(a)|(b)/ { node n0; attr (n0) name = $k } }`, and
\* `let n0 = $0` outside of a scan
GroupsRegex == Regex(<<"a", "b">>, TRUE)
RegexStanza(k) ==
    Stanza(<<Scan(StringConstant("ab"),
                  <<ScanArm(GroupsRegex,
                            <<CreateGraphNode(n0),
                              AddGraphNodeAttribute(n0, <<Attribute(2, RegexCapture(k))>>)>>)>>)>>)
RegexOutsideStanza == Stanza(<<DeclareImmutable(n0, RegexCapture(0))>>)
RegexStanzas == {RegexStanza(k) : k \in 0 .. 3} \cup {RegexOutsideStanza}

\* The stanza of the test can_set_mutable_local_variables, with n0 for `node`
\* and n1 for `new_node`
MutableLocalStanza ==
    Stanza(<<DeclareMutable(n0, NullLiteral),
             Assign(n0, Call("node", <<>>)),
             DeclareImmutable(n1, Call("node", <<>>)),
             CreateEdge(n1, n0),
             Assign(n0, n1)>>)

\* The stanzas whose query has the quantified capture
CaptureStanzas ==
    {s \in ForStanzas : s.statements[1][3][1] = "Capture"} \cup CaptureLetStanzas

CtlFiles ==
    {[allow_syntax_errors |-> TRUE, stanzas |-> stanzas] :
        stanzas \in {<<RedeclareStanza>>,
                     <<DeclareLocalStanza, ReadLocalStanza>>,
                     <<VarSetStanza>>, <<VarSetInArmStanza>>, <<LetSetStanza>>,
                     <<NodeSetStanza>>, <<ForSetStanza>>, <<SetOnlyStanza>>,
                     <<MutableLocalStanza>>}
                    \cup {<<GlobalStanza(statement)>> : statement \in OnGlobal}
                    \cup {<<stanza>> :
                             stanza \in ScanStanzas \cup IfStanzas \cup ForStanzas
                                        \cup CaptureLetStanzas \cup RegexStanzas}}

\* The nodes of the quantified capture
Extras == {<<>>, <<MaxNodes + 1>>, <<MaxNodes + 1, MaxNodes + 2>>}
CaptureMatch(m, extra) ==
    [pattern_index |-> m.pattern_index,
     captures |-> m.captures \o [i \in 1 .. Len(extra) |-> [index |-> 1, node |-> extra[i]]]]
CtlTreesFor(f) ==
    {[has_error |-> FALSE,
      matches |-> [i \in 1 .. Len(ms) |-> CaptureMatch(ms[i], extra)]] :
        ms \in VarMatchSeqs(Len(f.stanzas)),
        extra \in IF f.stanzas[1] \in CaptureStanzas THEN Extras ELSE {<<>>}}

InitCtl ==
    /\ file \in CtlFiles
    /\ tree \in CtlTreesFor(file)
    /\ graph = Graph_new
    /\ globals = [n \in {9, 14} |-> IF n = 9 THEN String("test.py") ELSE Integer(7)]
    /\ seed = Graph_new
    /\ mode = "eager"
    /\ phase = "idle"
    /\ result = "none"
    /\ locals = VariableMap_new
    /\ store = <<>>
    /\ lazy_graph = <<>>
    /\ function_parameters = <<>>
    /\ mat = NoMatch
    /\ graph_stmt = 0
    /\ stanza_index = 0
    /\ match_index = 0
    /\ statement_index = 0
    /\ steps = 0
    /\ trace = <<>>
    /\ evaluated = <<>>
    /\ runs = <<>>
    /\ scoped = ScopedVariables_new
    /\ scoped_store = LazyScopedVariables_new

SpecCtl == InitCtl /\ [][NextFile]_vars

\* The step takes the next match of the tree
BeginsMatch == match_index' = match_index + 1
\* The unscoped names the statements before the current one, of the current
\* stanza, declare at the top level
DeclaredBefore ==
    {file.stanzas[stanza_index + 1].statements[i][2][2] :
        i \in {j \in 1 .. statement_index :
                  /\ file.stanzas[stanza_index + 1].statements[j][1] \in
                        {"DeclareImmutable", "DeclareMutable", "CreateGraphNode"}
                  /\ file.stanzas[stanza_index + 1].statements[j][2][1] =
                        "UnscopedVariable"}}
\* The step executes a top-level statement of this kind on an unscoped name
ExecutesOnUnscoped(kinds) ==
    /\ ExecutesStatement
    /\ CurrentStatement[1] \in kinds
    /\ CurrentStatement[2][1] = "UnscopedVariable"

\* C21: every match, eager or lazy, begins with empty locals; a `let y = x`
\* of a local x that no earlier statement of the stanza declares fails with
\* UndefinedVariable, whatever the matches executed before, of this stanza
\* or of another; and a `let`, `var` or `node` of a name that is no global
\* and that no earlier statement of the stanza declares never fails with
\* DuplicateVariable, in the first match or in a later one.
C21_LocalsPerMatch ==
    [][/\ BeginsMatch => locals' = VariableMap_new
       /\ (/\ ExecutesOnUnscoped({"DeclareImmutable"})
           /\ CurrentStatement[3][1] = "UnscopedVariable"
           /\ CurrentStatement[3][2] \notin (DOMAIN globals) \cup DeclaredBefore)
              => result' = "UndefinedVariable"
       /\ (/\ ExecutesOnUnscoped({"DeclareImmutable", "DeclareMutable", "CreateGraphNode"})
           /\ CurrentStatement[2][2] \notin (DOMAIN globals) \cup DeclaredBefore)
              => result' # "DuplicateVariable"
      ]_vars

\* The second match of the stanza that declares n0, n1 and n2 has executed
\* its three declarations, after the first match did.
C21_Witness ==
    /\ file.stanzas = <<RedeclareStanza>>
    /\ match_index = 2
    /\ statement_index = 3
    /\ Len(trace) = 6
    /\ result = "none"
    /\ DOMAIN locals[1] = {0, 1, 4}

\* The lazy value a local of the maps is bound to: in an eager call its
\* value, in a lazy call the value of its thunk in the store
BoundTo(m, maps, thunks, name) ==
    IF m = "eager" THEN LazyValue_Value(VariableMap_get(maps, name).value)
    ELSE thunks[VariableMap_get(maps, name).value[2] + 1].value
\* The expression is a list literal with an element
IsNonEmptyList(expr) == expr[1] = "ListComprehension" /\ expr[2] # <<>>

\* C22: in both modes, a `let`, `var` or `node` of a global name, and a
\* `for` of a global name over a list that has an element, fail with
\* DuplicateVariable; a `set` of a global name fails with
\* CannotAssignImmutableVariable; no local ever has the name of a global,
\* the globals stay those the host passed, and `let n0 = limit` binds n0 to
\* the host's value of limit.
C22_GlobalsNeverShadowed ==
    [][/\ (/\ ExecutesOnUnscoped({"DeclareImmutable", "DeclareMutable", "CreateGraphNode"})
           /\ CurrentStatement[2][2] \in DOMAIN globals)
              => result' = "DuplicateVariable"
       /\ (/\ ExecutesOnUnscoped({"ForIn"})
           /\ CurrentStatement[2][2] \in DOMAIN globals
           /\ IsNonEmptyList(CurrentStatement[3]))
              => result' = "DuplicateVariable"
       /\ (/\ ExecutesOnUnscoped({"Assign"})
           /\ CurrentStatement[2][2] \in DOMAIN globals)
              => result' = "CannotAssignImmutableVariable"
       /\ (ExecutesStatement /\ CurrentStatement = DeclareImmutable(n0, limit))
              => /\ result' = "none"
                 /\ BoundTo(mode, locals', store', 0) = LazyValue_Value(Integer(7))
       /\ \A depth \in 1 .. Len(locals') :
              (DOMAIN locals'[depth]) \cap (DOMAIN globals') = {}
       /\ globals' = [n \in {9, 14} |-> IF n = 9 THEN String("test.py") ELSE Integer(7)]
      ]_vars

\* The lazy call has failed at `for limit in [1] {}`, after `let n0 = limit`.
C22_Witness ==
    /\ mode = "lazy"
    /\ file.stanzas =
          <<GlobalStanza(ForIn(limit, ListComprehension(<<IntegerConstant(1)>>), <<>>))>>
    /\ result = "DuplicateVariable"
    /\ Len(trace) = 2

\* What the statement the step executes returns, and the context it leaves
Outcome ==
    IF mode = "eager" THEN Statement_execute(CurrentStatement, Exec)
    ELSE Statement_execute_lazy(CurrentStatement, Exec)
\* The maps bind the same names, with the same mutability
SameNames(old, new) ==
    /\ DOMAIN old = DOMAIN new
    /\ \A n \in DOMAIN old : old[n].mutable = new[n].mutable

\* C23: in both modes, `set x = e` of a name that is no global, executed at
\* the top level of a match, fails with UndefinedVariable when no local is
\* x and with CannotAssignImmutableVariable when x is a local of a `let` or
\* a `node`, and then leaves the locals as they were; when x is a local of
\* a `var` it binds x to the value of e and leaves the other locals as they
\* were (the value is compared where e is an integer constant).  A `set` of
\* the variable of a `for` in the loop's body fails with
\* CannotAssignImmutableVariable.  A later `attr (n) name = x`, after a
\* `set x = 2` at the top level or in an arm of an `if`, gives the node 2.
C23_SetUnscoped ==
    [][/\ (/\ ExecutesOnUnscoped({"Assign"})
           /\ CurrentStatement[2][2] \notin DOMAIN globals)
              => LET x == CurrentStatement[2][2]
                 IN  IF x \notin DOMAIN locals[1]
                     THEN result' = "UndefinedVariable" /\ Outcome.exec.locals = locals
                     ELSE IF ~locals[1][x].mutable
                     THEN /\ result' = "CannotAssignImmutableVariable"
                          /\ Outcome.exec.locals = locals
                     ELSE /\ result' = "none"
                          /\ CurrentStatement[3][1] = "IntegerConstant"
                                => BoundTo(mode, locals', store', x) =
                                      LazyValue_Value(Integer(CurrentStatement[3][2]))
                          /\ SameNames(locals[1], locals'[1])
                          /\ \A n \in DOMAIN locals[1] \ {x} : locals'[1][n] = locals[1][n]
       /\ (/\ ExecutesOnUnscoped({"ForIn"})
           /\ CurrentStatement[2][2] \notin DOMAIN globals
           /\ IsNonEmptyList(CurrentStatement[3])
           /\ CurrentStatement[4] = <<Assign(CurrentStatement[2], IntegerConstant(2))>>)
              => result' = "CannotAssignImmutableVariable"
       /\ (/\ file.stanzas \in {<<VarSetStanza>>, <<VarSetInArmStanza>>}
           /\ result' = "Ok")
              => /\ Len(graph'.graph_nodes) = Len(tree.matches)
                 /\ \A i \in 1 .. Len(graph'.graph_nodes) :
                        ValuesOf(graph'.graph_nodes[i].attributes, 2) = {Integer(2)}
      ]_vars

\* The lazy call of `var n0 = 1; if #true { set n0 = 2 }; node n2;
\* attr (n2) name = n0` has returned Ok for two matches.
C23_Witness ==
    /\ mode = "lazy"
    /\ file.stanzas = <<VarSetInArmStanza>>
    /\ result = "Ok"
    /\ Len(graph.graph_nodes) = 2

\* The step executes a `scan` of a string literal, with the arms of the files
ExecutesScan ==
    /\ ExecutesStatement
    /\ CurrentStatement[1] = "Scan"
    /\ CurrentStatement[2][1] = "StringConstant"
    /\ file.stanzas[1] \in ScanStanzas
\* The arm has a match in the text; where its leftmost match starts
ArmMatches(arm, text) == Regex_captures(arm.regex, text).found
ArmStart(arm, text) == Regex_captures(arm.regex, text).start
\* The leftmost match of some arm in the text is empty
SomeArmEmpty(arms, text) ==
    \E a \in 1 .. Len(arms) :
        /\ ArmMatches(arms[a], text)
        /\ Regex_captures(arms[a].regex, text).start = Regex_captures(arms[a].regex, text).end
\* Of the arms that match in the text, the one whose leftmost match starts
\* earliest, the lower index at a tie
EarliestArm(arms, text) ==
    CHOOSE a \in 1 .. Len(arms) :
        /\ ArmMatches(arms[a], text)
        /\ \A b \in 1 .. Len(arms) :
              ArmMatches(arms[b], text) =>
                  \/ ArmStart(arms[a], text) < ArmStart(arms[b], text)
                  \/ ArmStart(arms[a], text) = ArmStart(arms[b], text) /\ a <= b
\* The iterations of a scan of the text: <<arm, matched string>> of each one
\* that executes an arm, and whether the scan ends at an empty match
RECURSIVE Tiles(_, _)
Tiles(arms, text) ==
    IF text = <<>> \/ SomeArmEmpty(arms, text)
          \/ \A a \in 1 .. Len(arms) : ~ArmMatches(arms[a], text)
    THEN <<>>
    ELSE <<<<EarliestArm(arms, text),
             Regex_captures(arms[EarliestArm(arms, text)].regex, text).groups[1].text>>>>
         \o Tiles(arms, SubSeq(text,
                Regex_captures(arms[EarliestArm(arms, text)].regex, text).end + 1,
                Len(text)))
RECURSIVE EndsAtEmpty(_, _)
EndsAtEmpty(arms, text) ==
    IF text = <<>> THEN FALSE
    ELSE IF SomeArmEmpty(arms, text) THEN TRUE
    ELSE IF \A a \in 1 .. Len(arms) : ~ArmMatches(arms[a], text) THEN FALSE
    ELSE EndsAtEmpty(arms, SubSeq(text,
             Regex_captures(arms[EarliestArm(arms, text)].regex, text).end + 1,
             Len(text)))
\* <<parent, name>> of the graph's nodes, in the order of their creation
ArmNodes(g) ==
    [i \in 1 .. Len(g.graph_nodes) |->
        <<CHOOSE v \in ValuesOf(g.graph_nodes[i].attributes, 3) : TRUE,
          CHOOSE v \in ValuesOf(g.graph_nodes[i].attributes, 2) : TRUE>>]
RECURSIVE Repeat(_, _)
Repeat(seq, n) == IF n = 0 THEN <<>> ELSE seq \o Repeat(seq, n - 1)
ScanTiles == Tiles(file.stanzas[1].statements[1][3], Chars(file.stanzas[1].statements[1][2][2]))
ScanEndsAtEmpty ==
    EndsAtEmpty(file.stanzas[1].statements[1][3], Chars(file.stanzas[1].statements[1][2][2]))

\* C24: in both modes, a scan in which no leftmost match is empty executes,
\* in each iteration in which an arm matches in the rest of the subject,
\* the body of exactly one arm: the one whose leftmost match starts
\* earliest, the lower arm at a tie, whatever the lengths of the matches; the
\* next iteration starts at the end of that match.  The nodes the bodies
\* create are one per iteration, in order, with the arm and its whole match.
C24_ScanEarliestArm ==
    [][/\ (ExecutesScan /\ ~ScanEndsAtEmpty)
              => /\ result' = "none"
                 /\ Len(graph'.graph_nodes) = Len(graph.graph_nodes) + Len(ScanTiles)
       /\ (file.stanzas[1] \in ScanStanzas /\ result' = "Ok")
              => ArmNodes(graph') =
                    Repeat([i \in 1 .. Len(ScanTiles) |->
                               <<Integer(ScanTiles[i][1]), String(ScanTiles[i][2])>>],
                           Len(tree.matches))
      ]_vars

\* The lazy call of `scan "ab" { /b/ {...} /ab/ {...} }` has returned Ok for
\* one match: the second arm, whose match starts first, was executed, once.
C24_Witness ==
    /\ mode = "lazy"
    /\ file.stanzas = <<ScanStanza("ab", <<Literal("b"), Literal("ab")>>)>>
    /\ Len(tree.matches) = 1
    /\ result = "Ok"
    /\ ArmNodes(graph) = <<<<Integer(2), String("ab")>>>>

\* C25: in both modes, a scan fails with EmptyRegexCapture in the first
\* iteration in which the leftmost match of some arm in the rest of the
\* subject is empty, also when another arm has a match that is not empty and
\* starts as early; the bodies executed are those of the iterations before.
\* A scan of the empty string executes no body and returns no error.
C25_EmptyRegexCapture ==
    [][ExecutesScan =>
          /\ ScanEndsAtEmpty =>
                /\ result' = "EmptyRegexCapture"
                /\ Len(graph'.graph_nodes) = Len(graph.graph_nodes) + Len(ScanTiles)
          /\ result' = "EmptyRegexCapture" => ScanEndsAtEmpty
          /\ CurrentStatement[2][2] = "" =>
                /\ result' = "none"
                /\ graph' = graph
                /\ lazy_graph' = lazy_graph
      ]_vars

\* The eager call of `scan "ab" { /b/ {...} /a|/ {...} }` has failed in its
\* second iteration: the first executed the second arm on "a"; in the rest,
\* "b", the first arm matches "b" and the second arm matches the empty string.
C25_Witness ==
    /\ mode = "eager"
    /\ file.stanzas = <<ScanStanza("ab", <<Literal("b"), Regex(<<"a", "">>, FALSE)>>)>>
    /\ result = "EmptyRegexCapture"
    /\ ArmNodes(graph) = <<<<Integer(2), String("a")>>>>

\* The step executes the `if` of one of the files of `if`
ExecutesIf ==
    /\ ExecutesStatement
    /\ CurrentStatement[1] = "If"
    /\ file.stanzas[1] \in IfStanzas
\* What a condition of those files is, and the `(node)` calls it makes
ConditionValue(c) ==
    CASE c \in {ConditionSome(NodeCall), ConditionBool(TrueLiteral)} -> "true"
      [] c \in {ConditionNone(NodeCall), ConditionBool(FalseLiteral)} -> "false"
      [] OTHER -> "ExpectedBoolean"
ConditionCalls(c) == IF c[2] = NodeCall THEN 1 ELSE 0
RECURSIVE SumCalls(_)
SumCalls(conditions) ==
    IF conditions = <<>> THEN 0
    ELSE ConditionCalls(conditions[1]) + SumCalls(Tail(conditions))
ArmTrue(arm) ==
    \A i \in 1 .. Len(arm.conditions) : ConditionValue(arm.conditions[i]) = "true"
\* The first arm whose conditions are all true; 0 when there is none
FirstTrueArm(arms) ==
    IF \A k \in 1 .. Len(arms) : ~ArmTrue(arms[k]) THEN 0
    ELSE CHOOSE k \in 1 .. Len(arms) :
             ArmTrue(arms[k]) /\ \A j \in 1 .. (k - 1) : ~ArmTrue(arms[j])

\* The conditions of the first n arms
RECURSIVE ConditionsOf(_, _)
ConditionsOf(arms, n) ==
    IF n = 0 THEN <<>> ELSE ConditionsOf(arms, n - 1) \o arms[n].conditions
\* The conditions of the arms up to the first true one, of all if none is
Tested(arms) ==
    ConditionsOf(arms, IF FirstTrueArm(arms) = 0 THEN Len(arms) ELSE FirstTrueArm(arms))
\* The graph nodes the step adds
Created == Len(graph'.graph_nodes) - Len(graph.graph_nodes)

\* What C26 says of a step that executes an `if`, but for the case of no arm
IfExecutesFirstTrueArm ==
    LET arms == CurrentStatement[2]
        k == FirstTrueArm(arms)
    IN  /\ (\A i \in 1 .. Len(Tested(arms)) :
                ConditionValue(Tested(arms)[i]) # "ExpectedBoolean") => result' = "none"
        /\ result' = "none" =>
              /\ BoundTo(mode, locals', store', 0) = LazyValue_Value(Integer(k))
              /\ Len(locals') = 1
              /\ DOMAIN locals'[1] = DOMAIN locals[1]
              /\ Created <= SumCalls(Tested(arms))
              /\ graph'.graph_nodes =
                    graph.graph_nodes \o [i \in 1 .. Created |-> GraphNode_new]
              /\ graph'.syntax_nodes = graph.syntax_nodes
              /\ k = 0 => /\ locals' = locals
                          /\ store' = store
                          /\ lazy_graph' = lazy_graph
                          /\ scoped' = scoped
                          /\ scoped_store' = scoped_store

\* C26 as stated: an `if` executes the body of the first arm whose
\* conditions are all true and of no other, tests no condition of a later
\* arm, and with no true arm changes neither the graph nor the variables.
C26_IfNoArmNoEffect ==
    [][ExecutesIf =>
          /\ IfExecutesFirstTrueArm
          /\ (result' = "none" /\ FirstTrueArm(CurrentStatement[2]) = 0) => graph' = graph
      ]_vars

\* C26, amended: in both modes, an `if` that returns no error has executed
\* the body of the first arm, in declaration order, whose conditions are all
\* true (an `else` arm is true) and of no other arm: n0 is the number of that
\* arm, or still 0.  It has tested no condition of a later arm: the graph
\* has grown by at most the `(node)` calls of the conditions up to that arm,
\* and by empty nodes only.  With no true arm the variables, the store, the
\* lazy program and the scoped variables are unchanged; the graph has the
\* nodes that the conditions' calls created.
C26_IfFirstTrueArm == [][ExecutesIf => IfExecutesFirstTrueArm]_vars

\* The lazy call has executed `if some (node), none (node) { set n0 = 1 }
\* elif #true { set n0 = 2 } else { set n0 = 3 }`: n0 is 2 and the two calls
\* of the first arm's conditions have created their nodes.
C26_Witness ==
    /\ mode = "lazy"
    /\ file.stanzas = <<IfStanza(ConditionSome(NodeCall), ConditionNone(NodeCall),
                                 ConditionBool(TrueLiteral), TRUE)>>
    /\ Len(trace) = 2
    /\ result = "none"
    /\ BoundTo(mode, locals, store, 0) = LazyValue_Value(Integer(2))
    /\ Len(graph.graph_nodes) = 2

\* The conditions of an arm tested from the i-th on with short-circuit AND:
\* the value of the first that is not true, and the `(node)` calls made
RECURSIVE ArmShortCircuit(_, _)
ArmShortCircuit(conditions, i) ==
    IF i > Len(conditions) THEN [value |-> "true", calls |-> 0]
    ELSE IF ConditionValue(conditions[i]) = "true"
    THEN [ArmShortCircuit(conditions, i + 1) EXCEPT
              !.calls = @ + ConditionCalls(conditions[i])]
    ELSE [value |-> ConditionValue(conditions[i]),
          calls |-> ConditionCalls(conditions[i])]
\* The arms tested from the j-th on, each with short-circuit AND
RECURSIVE IfShortCircuit(_, _)
IfShortCircuit(arms, j) ==
    IF j > Len(arms) THEN [result |-> "none", calls |-> 0]
    ELSE IF ArmShortCircuit(arms[j].conditions, 1).value = "true"
    THEN [result |-> "none", calls |-> ArmShortCircuit(arms[j].conditions, 1).calls]
    ELSE IF ArmShortCircuit(arms[j].conditions, 1).value = "false"
    THEN [IfShortCircuit(arms, j + 1) EXCEPT
              !.calls = @ + ArmShortCircuit(arms[j].conditions, 1).calls]
    ELSE [result |-> "ExpectedBoolean",
          calls |-> ArmShortCircuit(arms[j].conditions, 1).calls]

\* C27: the conditions of an arm are tested left to right until one is
\* false: the `if` returns the error of a condition, and the graph grows by
\* the node of a `(node)` call in a condition, only if no condition before
\* it in its arm is false.
C27_ShortCircuitAnd ==
    [][ExecutesIf =>
          /\ result' = IfShortCircuit(CurrentStatement[2], 1).result
          /\ Created = IfShortCircuit(CurrentStatement[2], 1).calls
      ]_vars

\* The step executes the `for` of one of the files of `for`
ExecutesFor ==
    /\ ExecutesStatement
    /\ CurrentStatement[1] = "ForIn"
    /\ file.stanzas[1] \in ForStanzas
\* The value of the `for` is a list; its elements in the match m
IsListExpression(expr) == expr[1] \in {"ListComprehension", "Capture"}
Captured(m, index) == SelectSeq(m.captures, LAMBDA c : c.index = index)
Elements(expr, m) ==
    IF expr[1] = "ListComprehension"
    THEN [i \in 1 .. Len(expr[2]) |-> Integer(expr[2][i][2])]
    ELSE [i \in 1 .. Len(Captured(m, expr[2])) |-> SyntaxNode(Captured(m, expr[2])[i].node)]
\* The attribute `name` of the graph's nodes, in the order of their creation
Names(g) ==
    [i \in 1 .. Len(g.graph_nodes) |->
        CHOOSE v \in ValuesOf(g.graph_nodes[i].attributes, 2) : TRUE]

\* C28: in both modes, `for n1 in e { node n0; attr (n0) name = n1 }` fails
\* with ExpectedList, and creates no node, when e is an integer, a string or
\* null; when e is a list it returns no error and its body has run once per
\* element, none for the empty list: it has created one node per element,
\* although every turn declares n1 and n0 anew, and the nodes have the
\* elements as their names, in the order of the list.  The locals after the
\* loop are those before it: a `let n2 = n0` or `let n2 = n1` after the loop
\* fails with UndefinedVariable.  The variable is immutable: `set n0 = 2`
\* in the body of `for n0 in [1]` fails with CannotAssignImmutableVariable.
C28_ForIn ==
    [][/\ ExecutesFor =>
              IF IsListExpression(CurrentStatement[3])
              THEN /\ result' = "none"
                   /\ Created = Len(Elements(CurrentStatement[3], mat))
                   /\ locals' = locals
              ELSE /\ result' = "ExpectedList"
                   /\ Created = 0
       /\ (/\ ExecutesStatement
           /\ file.stanzas[1] \in ForStanzas
           /\ CurrentStatement[1] = "DeclareImmutable")
              => result' = "UndefinedVariable"
       /\ (/\ file.stanzas[1] \in ForStanzas
           /\ result' = "Ok"
           /\ Len(tree.matches) > 0)
              => Names(graph') =
                    Repeat(Elements(file.stanzas[1].statements[1][3], tree.matches[1]),
                           Len(tree.matches))
       /\ (ExecutesStatement /\ file.stanzas = <<ForSetStanza>>)
              => result' = "CannotAssignImmutableVariable"
      ]_vars

\* The eager call of `for n1 in [2, 1] {..}` has returned Ok for one match:
\* the nodes 0 and 1 have the names 2 and 1.
C28_Witness ==
    /\ mode = "eager"
    /\ file.stanzas = <<ForStanza(Numbers(<<2, 1>>), <<>>)>>
    /\ Len(tree.matches) = 1
    /\ result = "Ok"
    /\ Names(graph) = <<Integer(2), Integer(1)>>

\* The syntax nodes a value holds
RefsIn(value) ==
    CASE value[1] = "SyntaxNode" -> {value[2]}
      [] value[1] = "List" -> {value[2][i][2] : i \in 1 .. Len(value[2])}
      [] OTHER -> {}
\* What a capture of this quantifier is for the nodes of the match
CaptureValue(quantifier, nodes) ==
    CASE quantifier = "One" -> SyntaxNode(nodes[1].node)
      [] quantifier = "ZeroOrOne" ->
            IF nodes = <<>> THEN Null ELSE SyntaxNode(nodes[1].node)
      [] OTHER -> List([i \in 1 .. Len(nodes) |-> SyntaxNode(nodes[i].node)])

\* C29: in both modes, `let n0 = @c` binds n0, for the quantifier One, to
\* the syntax node the match captured; for ZeroOrOne, to Null when the match
\* has no node for the capture and to the syntax node otherwise; for
\* ZeroOrMore and OneOrMore, to the list of the captured syntax nodes in
\* the order of the match, the empty list when there is none.  Every node
\* of the value is in the graph's syntax-node map, under its own reference;
\* nothing else of the graph changes.
C29_CaptureValue ==
    [][(/\ ExecutesStatement
        /\ file.stanzas[1] \in CaptureLetStanzas)
          => LET value == CaptureValue(CurrentStatement[3][3],
                                       Captured(mat, CurrentStatement[3][2]))
             IN  /\ result' = "none"
                 /\ BoundTo(mode, locals', store', 0) = LazyValue_Value(value)
                 /\ \A ref \in RefsIn(value) :
                        /\ ref \in DOMAIN graph'.syntax_nodes
                        /\ graph'.syntax_nodes[ref] = ref
                        /\ \E i \in 1 .. Len(mat.captures) : mat.captures[i].node = ref
                 /\ DOMAIN graph'.syntax_nodes = DOMAIN graph.syntax_nodes \cup RefsIn(value)
                 /\ graph'.graph_nodes = graph.graph_nodes
      ]_vars

\* The eager call has executed `let n0 = @c` for a `*` capture of two nodes:
\* n0 is the list of the two, both registered by this statement.
C29_Witness ==
    /\ mode = "eager"
    /\ file.stanzas = <<CaptureLetStanza(Capture(1, "ZeroOrMore"))>>
    /\ Len(trace) = 1
    /\ result = "none"
    /\ VariableMap_get(locals, 0).value =
          List(<<SyntaxNode(MaxNodes + 1), SyntaxNode(MaxNodes + 2)>>)
    /\ DOMAIN graph.syntax_nodes = {MaxNodes + 1, MaxNodes + 2}

\* The strings of group k in the two iterations of the scan of "ab" with
\* /(a)|(b)/
GroupStrings(k) ==
    CASE k = 0 -> <<String("a"), String("b")>>
      [] k = 1 -> <<String("a"), String("")>>
      [] k = 2 -> <<String(""), String("b")>>

\* C30: in both modes, `$k` in an arm of a scan is the string of group k of
\* the arm's match, the whole match for k = 0 and the empty string for a
\* group that took no part; when the match has no group k, and outside of a
\* scan, where there are no regex captures, the statement fails with
\* UndefinedRegexCapture.
C30_RegexCapture ==
    [][/\ (ExecutesStatement /\ file.stanzas[1] \in RegexStanzas)
              => IF file.stanzas[1] \in {RegexStanza(3), RegexOutsideStanza}
                 THEN result' = "UndefinedRegexCapture"
                 ELSE result' = "none"
       /\ \A k \in 0 .. 2 :
              (file.stanzas[1] = RegexStanza(k) /\ result' = "Ok")
                  => Names(graph') = Repeat(GroupStrings(k), Len(tree.matches))
      ]_vars

\* The call has returned an error
Failed == result \notin {"none", "Ok"}
\* The step evaluates a statement of lazy_graph
EvaluatesGraphStmt == Len(evaluated') = Len(evaluated) + 1
\* The statements of the call that are executed when none fails
RECURSIVE StatementsOf(_, _)
StatementsOf(matches, stanzas) ==
    IF matches = <<>> THEN 0
    ELSE Len(stanzas[matches[1].pattern_index + 1].statements)
         + StatementsOf(Tail(matches), stanzas)
AllStatements == StatementsOf(tree.matches, file.stanzas)

\* C31: when a statement of a stanza, eager or lazy, or a statement of
\* lazy_graph in the final loop returns an error, the call returns that
\* error at once; after the call has failed no statement is executed, no
\* match or stanza is begun, no statement of lazy_graph is evaluated and the
\* graph does not change.
C31_FailFast ==
    [][/\ (ExecutesStatement /\ Outcome.err # "none")
              => result' = Outcome.err /\ phase' = "idle"
       /\ (/\ EvaluatesGraphStmt
           /\ LazyStatement_evaluate(lazy_graph[graph_stmt + 1], Exec).err # "none")
              => /\ result' = LazyStatement_evaluate(lazy_graph[graph_stmt + 1], Exec).err
                 /\ phase' = "idle"
       /\ Failed
              => UNCHANGED <<graph, trace, evaluated, steps, stanza_index, match_index,
                             statement_index, result>>
       /\ (result' \notin {"none", "Ok"}) => phase' = "idle"
      ]_vars
\* A lazy call failed in its final loop before the last statement of
\* lazy_graph, after one that added to the graph.
C31_Witness ==
    /\ mode = "lazy"
    /\ Failed
    /\ Len(evaluated) >= 1
    /\ Len(evaluated) < Len(Deferred)
    /\ Len(trace) = AllStatements

\* The edges of the graph, as pairs of source and sink
EdgePairs(g) ==
    UNION {{<<n - 1, g.graph_nodes[n].outgoing_edges[i][1]>> :
               i \in 1 .. Len(g.graph_nodes[n].outgoing_edges)} :
           n \in 1 .. Len(g.graph_nodes)}
\* A call has run the stanza of can_set_mutable_local_variables in one match.
MutableLocalRun ==
    /\ file.stanzas = <<MutableLocalStanza>>
    /\ Len(tree.matches) = 1
    /\ result # "none"

\* C32 as stated: a call, eager or lazy, that executes `var x = #null;
\* set x = (node); let y = (node); edge y -> x; set x = y` in one match
\* returns Ok with two graph nodes and one edge, from node 0 to node 1.
C32_MutableLocal ==
    MutableLocalRun
        => /\ result = "Ok"
           /\ Len(graph.graph_nodes) = 2
           /\ EdgePairs(graph) = {<<0, 1>>}

\* C32, amended: the call returns Ok with two graph nodes and one edge, from
\* the node of y to the node x was bound to when `edge` was executed, never
\* a self-edge.  In lazy mode the two `(node)` calls are forced by the edge,
\* its source y first: the edge is 0 -> 1.  In eager mode the calls are made
\* in statement order, x's first: the edge is 1 -> 0.
C32_MutableLocalByMode ==
    MutableLocalRun
        => /\ result = "Ok"
           /\ Len(graph.graph_nodes) = 2
           /\ EdgePairs(graph) = IF mode = "lazy" THEN {<<0, 1>>} ELSE {<<1, 0>>}
C32_Witness ==
    /\ MutableLocalRun
    /\ mode = "lazy"
    /\ EdgePairs(graph) = {<<0, 1>>}

(***************************************************************************)
(* SpecForced: one File call over files of two stanzas, one that declares  *)
(* the scoped variable @id.x and one that reads it, in the condition of an *)
(* `if`, as the iterable of a `for`, as the subject of a `scan`, or as the  *)
(* value of an attribute.  The cursor interleaves the matches of the two   *)
(* stanzas in any way.                                                     *)
(***************************************************************************)
ReadKinds == {"if", "for", "scan", "attr"}
ScopedX == ScopedVariable(id, 11)
\* `let @id.x = v`, with a value the reading statement accepts
DeclareXStanza(kind) ==
    Stanza(<<DeclareImmutable(ScopedX,
                CASE kind = "for" -> ListComprehension(<<IntegerConstant(1)>>)
                  [] kind = "scan" -> StringConstant("a")
                  [] OTHER -> IntegerConstant(1))>>)
\* The statement that reads @id.x; its body, or the statement before it,
\* creates one graph node
ReadXStanza(kind) ==
    CASE kind = "if" ->
            Stanza(<<If(<<IfArm(<<ConditionSome(ScopedX)>>, <<CreateGraphNode(n0)>>)>>)>>)
      [] kind = "for" -> Stanza(<<ForIn(n1, ScopedX, <<CreateGraphNode(n0)>>)>>)
      [] kind = "scan" ->
            Stanza(<<Scan(ScopedX, <<ScanArm(Literal("a"), <<CreateGraphNode(n0)>>)>>)>>)
      [] kind = "attr" ->
            Stanza(<<CreateGraphNode(n0),
                     AddGraphNodeAttribute(n0, <<Attribute(2, ScopedX)>>)>>)
ForcedFiles ==
    {[allow_syntax_errors |-> TRUE, stanzas |-> stanzas] :
        stanzas \in UNION {{<<ReadXStanza(kind), DeclareXStanza(kind)>>,
                            <<DeclareXStanza(kind), ReadXStanza(kind)>>} :
                           kind \in ReadKinds}}

InitForced ==
    /\ file \in ForcedFiles
    /\ tree \in VarTreesFor(file)
    /\ graph = Graph_new
    /\ globals = [n \in {9} |-> String("test.py")]
    /\ seed = Graph_new
    /\ mode = "eager"
    /\ phase = "idle"
    /\ result = "none"
    /\ locals = VariableMap_new
    /\ store = <<>>
    /\ lazy_graph = <<>>
    /\ function_parameters = <<>>
    /\ mat = NoMatch
    /\ graph_stmt = 0
    /\ stanza_index = 0
    /\ match_index = 0
    /\ statement_index = 0
    /\ steps = 0
    /\ trace = <<>>
    /\ evaluated = <<>>
    /\ runs = <<>>
    /\ scoped = ScopedVariables_new
    /\ scoped_store = LazyScopedVariables_new

SpecForced == InitForced /\ [][NextFile]_vars

\* The step executes an `if`, a `for` or a `scan`
ExecutesControl == ExecutesStatement /\ CurrentStatement[1] \in {"If", "ForIn", "Scan"}
\* The matches of the tree in which the stanza reads @id.x as an attribute
\* value, and the nodes some match declares @id.x for
IsAttrRead(m) ==
    file.stanzas[m.pattern_index + 1].statements[1] = CreateGraphNode(n0)
AttrReads == SelectSeq(tree.matches, IsAttrRead)
DeclaredNodes ==
    {MatchNode(tree.matches[i]) :
        i \in {j \in 1 .. Len(tree.matches) :
                  file.stanzas[tree.matches[j].pattern_index + 1].statements[1][1]
                      = "DeclareImmutable"}}

\* C33: in a lazy call, an `if`, a `for` or a `scan` whose condition,
\* iterable or subject reads @id.x is decided when the statement is
\* executed: it runs its body when a match executed earlier declared @id.x
\* for the node, and fails with UndefinedScopedVariable otherwise, also when
\* a later match of the tree declares it.  The same read as the value of an
\* attribute never fails while the stanzas are executed, and the call
\* returns Ok when every node it is read for is declared by some match of
\* the tree, earlier or later.
C33_ControlForcedEarly ==
    [][mode = "lazy" =>
        /\ ExecutesControl =>
              IF LetDeclared(MatchNode(mat), 11) # {}
              THEN /\ result' = "none"
                   /\ Len(graph'.graph_nodes) = Len(graph.graph_nodes) + 1
              ELSE /\ result' = "UndefinedScopedVariable"
                   /\ graph'.graph_nodes = graph.graph_nodes
        /\ (ExecutesStatement /\ CurrentStatement[1] = "AddGraphNodeAttribute")
              => result' = "none"
        /\ (AttrReads # <<>> /\ result = "none" /\ result' # "none")
              => result' = IF \A i \in 1 .. Len(AttrReads) :
                                  MatchNode(AttrReads[i]) \in DeclaredNodes
                           THEN "Ok"
                           ELSE "UndefinedScopedVariable"
      ]_vars
\* A lazy call failed at the `if` of the first match, although the second
\* match of the tree declares @id.x for the same node.
C33_Witness ==
    /\ mode = "lazy"
    /\ file.stanzas = <<ReadXStanza("if"), DeclareXStanza("if")>>
    /\ tree.matches = <<Match(0, 1), Match(1, 1)>>
    /\ result = "UndefinedScopedVariable"
    /\ trace = <<<<0, 1, 0>>>>

\* The subject and the arms of the `scan` the step executes
ScanSubject == Chars(CurrentStatement[2][2])
ScanArms == CurrentStatement[3]
\* The matches of the arms in the subject from the cursor i on
MatchesFrom(i) ==
    Scan_matches(ScanArms, 0, SubSeq(ScanSubject, i + 1, Len(ScanSubject)), <<>>)
\* The number of characters the matched strings of the tiles cover
RECURSIVE Covered(_)
Covered(tiles) ==
    IF tiles = <<>> THEN 0 ELSE Len(tiles[1][2]) + Covered(Tail(tiles))

\* C34: in both modes a scan returns, with no error or with
\* EmptyRegexCapture.  At every cursor i < length(s) the turn of the loop
\* either returns (an arm's match is empty, or no arm matches) or takes a
\* match whose end is at least 1 and at most length(s) - i, so the cursor
\* grows; the bodies executed are at most length(s); and when the matches
\* cover all of s the loop ends at i = length(s) without another turn.
C34_ScanTerminates ==
    [][ExecutesScan =>
          /\ result' \in {"none", "EmptyRegexCapture"}
          /\ \A i \in 0 .. (Len(ScanSubject) - 1) :
                (MatchesFrom(i).err = "none" /\ MatchesFrom(i).matches # <<>>)
                    => /\ Scan_sorted_first(MatchesFrom(i).matches).captures.end >= 1
                       /\ i + Scan_sorted_first(MatchesFrom(i).matches).captures.end
                             <= Len(ScanSubject)
          /\ Len(graph'.graph_nodes) - Len(graph.graph_nodes) <= Len(ScanSubject)
          /\ (Covered(ScanTiles) = Len(ScanSubject))
                => /\ result' = "none"
                   /\ Len(graph'.graph_nodes) - Len(graph.graph_nodes) = Len(ScanTiles)
      ]_vars
\* An eager call of `scan "aa" { /a/ {...} /ab/ {...} }` has returned Ok: each
\* match executed as many bodies as the subject has characters.
C34_Witness ==
    /\ mode = "eager"
    /\ file.stanzas = <<ScanStanza("aa", <<Literal("a"), Literal("ab")>>)>>
    /\ Len(tree.matches) >= 1
    /\ result = "Ok"
    /\ Len(graph.graph_nodes) = 2 * Len(tree.matches)

\* The spans <<start, end>> in the text, as absolute offsets, of the matches
\* a scan takes from the cursor i on: the leftmost match of the earliest arm
\* in text[i..], then on from the end of that match
RECURSIVE Spans(_, _, _)
Spans(arms, text, i) ==
    IF i >= Len(text) \/ SomeArmEmpty(arms, SubSeq(text, i + 1, Len(text)))
          \/ \A a \in 1 .. Len(arms) : ~ArmMatches(arms[a], SubSeq(text, i + 1, Len(text)))
    THEN <<>>
    ELSE <<<<i + Regex_captures(
                     arms[EarliestArm(arms, SubSeq(text, i + 1, Len(text)))].regex,
                     SubSeq(text, i + 1, Len(text))).start,
             i + Regex_captures(
                     arms[EarliestArm(arms, SubSeq(text, i + 1, Len(text)))].regex,
                     SubSeq(text, i + 1, Len(text))).end>>>>
         \o Spans(arms, text,
                i + Regex_captures(
                        arms[EarliestArm(arms, SubSeq(text, i + 1, Len(text)))].regex,
                        SubSeq(text, i + 1, Len(text))).end)
\* The spans of the scan of the file's stanza, and the strings they cover
FileSpans ==
    Spans(file.stanzas[1].statements[1][3],
          Chars(file.stanzas[1].statements[1][2][2]), 0)
SpanStrings ==
    [k \in 1 .. Len(FileSpans) |->
        String(Str(SubSeq(Chars(file.stanzas[1].statements[1][2][2]),
                          FileSpans[k][1] + 1, FileSpans[k][2])))]

\* C35: in both modes the matches a scan takes, as absolute spans of the
\* subject when the cursor after each turn is the old cursor plus the end of
\* the match in s[i..], are not empty, end inside s, and each starts at or
\* after the end of the one before; the scan executes one body per span and
\* none for the text it skips, and `$0` in the k-th body is the text of s in
\* the k-th span.
C35_CursorAtMatchEnd ==
    [][/\ ExecutesScan
              => /\ \A k \in 1 .. Len(FileSpans) :
                        /\ FileSpans[k][1] < FileSpans[k][2]
                        /\ FileSpans[k][2] <= Len(ScanSubject)
                        /\ k > 1 => FileSpans[k - 1][2] <= FileSpans[k][1]
                 /\ Len(graph'.graph_nodes) = Len(graph.graph_nodes) + Len(FileSpans)
       /\ (file.stanzas[1] \in ScanStanzas /\ result' = "Ok")
              => Names(graph') = Repeat(SpanStrings, Len(tree.matches))
      ]_vars
\* A lazy call of `scan "bab" { /ab/ {...} /a/ {...} }` has returned Ok for one
\* match: the scan skipped the first b and executed one body, for the span
\* 1 .. 3.
C35_Witness ==
    /\ mode = "lazy"
    /\ file.stanzas = <<ScanStanza("bab", <<Literal("ab"), Literal("a")>>)>>
    /\ Len(tree.matches) = 1
    /\ result = "Ok"
    /\ FileSpans = <<<<1, 3>>>>
    /\ Names(graph) = <<String("ab")>>

\* No node of the graph has an attribute or an edge
NothingWritten(g) ==
    \A n \in 1 .. Len(g.graph_nodes) : g.graph_nodes[n] = GraphNode_new

\* C36: in a lazy call that starts from an empty graph, a step made while
\* the stanzas are executed, a failing one included, only adds graph nodes
\* without attributes and edges and registers syntax nodes: the nodes and
\* the syntax nodes the graph had are kept, and no node has an attribute or
\* an edge.  So when the call fails before its final loop, nothing is
\* written.
C36_LazyWritesDeferred ==
    [][(mode = "lazy" /\ phase = "stanzas") =>
          /\ Len(graph'.graph_nodes) >= Len(graph.graph_nodes)
          /\ NothingWritten(graph')
          /\ DOMAIN graph.syntax_nodes \subseteq DOMAIN graph'.syntax_nodes
          /\ \A s \in DOMAIN graph.syntax_nodes :
                graph'.syntax_nodes[s] = graph.syntax_nodes[s]
          /\ (result' \notin {"none", "Ok"}) => evaluated' = <<>>
      ]_vars
\* A lazy call failed with EmptyRegexCapture in the second turn of a scan
\* whose first turn executed `node n0` and `attr (n0) ...`: the graph has
\* the node, without the attributes.
C36_Witness ==
    /\ mode = "lazy"
    /\ file.stanzas = <<ScanStanza("ab", <<Literal("b"), Regex(<<"a", "">>, FALSE)>>)>>
    /\ result = "EmptyRegexCapture"
    /\ Len(graph.graph_nodes) = 1
    /\ NothingWritten(graph)

\* The graph-node references a value holds
RECURSIVE GraphNodeRefsIn(_)
GraphNodeRefsIn(value) ==
    CASE value[1] = "GraphNode" -> {value[2]}
      [] value[1] = "List" ->
            UNION {GraphNodeRefsIn(value[2][i]) : i \in 1 .. Len(value[2])}
      [] OTHER -> {}
\* ... a lazy value holds
RECURSIVE LazyRefsIn(_)
LazyRefsIn(value) ==
    CASE value[1] = "Value" -> GraphNodeRefsIn(value[2])
      [] value[1] = "List" -> UNION {LazyRefsIn(value[2][i]) : i \in 1 .. Len(value[2])}
      [] value[1] = "Call" -> UNION {LazyRefsIn(value[3][i]) : i \in 1 .. Len(value[3])}
      [] OTHER -> {}
\* ... a list of attributes of the graph holds
AttributesRefs(attributes) ==
    UNION {GraphNodeRefsIn(attributes.values[i][2]) : i \in 1 .. Len(attributes.values)}
\* ... the graph holds: the sinks of its edges and the values of the
\* attributes of its nodes and edges
GraphRefs(g) ==
    UNION {{g.graph_nodes[n].outgoing_edges[i][1] :
               i \in 1 .. Len(g.graph_nodes[n].outgoing_edges)}
           \cup AttributesRefs(g.graph_nodes[n].attributes)
           \cup UNION {AttributesRefs(g.graph_nodes[n].outgoing_edges[i][2].attributes) :
                          i \in 1 .. Len(g.graph_nodes[n].outgoing_edges)} :
           n \in 1 .. Len(g.graph_nodes)}
\* ... a stack of maps of variables holds, as values or as lazy values
MapsRefs(maps) ==
    UNION {UNION {GraphNodeRefsIn(maps[d][n].value) \cup LazyRefsIn(maps[d][n].value) :
                     n \in DOMAIN maps[d]} :
           d \in 1 .. Len(maps)}
\* ... the thunks of the store hold, unevaluated or evaluated
StoreRefs(thunks) ==
    UNION {LazyRefsIn(thunks[k].value)
           \cup (IF thunks[k].state[1] = "Evaluated"
                 THEN GraphNodeRefsIn(thunks[k].state[2]) ELSE {}) :
           k \in 1 .. Len(thunks)}
\* ... a statement of lazy_graph holds
LazyAttributesRefs(attributes) ==
    UNION {LazyRefsIn(attributes[i].value) : i \in 1 .. Len(attributes)}
LazyStatementRefs(stmt) ==
    CASE stmt[1] = "LazyAddGraphNodeAttribute" ->
            LazyRefsIn(stmt[2]) \cup LazyAttributesRefs(stmt[3])
      [] stmt[1] = "LazyCreateEdge" -> LazyRefsIn(stmt[2]) \cup LazyRefsIn(stmt[3])
      [] stmt[1] = "LazyAddEdgeAttribute" ->
            LazyRefsIn(stmt[2]) \cup LazyRefsIn(stmt[3]) \cup LazyAttributesRefs(stmt[4])
GlobalsRefs == UNION {GraphNodeRefsIn(globals[n]) : n \in DOMAIN globals}
\* Every graph-node reference the state holds
HeldRefs ==
    GraphRefs(graph) \cup GlobalsRefs \cup MapsRefs(locals) \cup StoreRefs(store)
    \cup UNION {MapsRefs(scoped[s]) : s \in DOMAIN scoped}
    \cup UNION {LazyStatementRefs(lazy_graph[i]) : i \in 1 .. Len(lazy_graph)}
    \cup UNION {GraphNodeRefsIn(function_parameters[i]) :
                   i \in 1 .. Len(function_parameters)}

\* C37: when the graph nodes the globals name are nodes of the graph the
\* host passed, every graph-node reference the state holds, in the sink of
\* an edge, in an attribute of a node or an edge, in a global, a local, a
\* scoped variable, a thunk, a deferred statement or a function parameter,
\* is the index of a node of the graph; and no call ends in the panic of an
\* index out of bounds.
C37_RefsInGraph ==
    (GlobalsRefs \subseteq NodeRefs(seed))
        => /\ HeldRefs \subseteq NodeRefs(graph)
           /\ result # "panic"
\* The host's graph had two nodes; the call has added a third, a local
\* names it and an edge of the graph leads to it.
C37_Witness ==
    /\ Len(seed.graph_nodes) = 2
    /\ Len(graph.graph_nodes) = 3
    /\ 2 \in GraphRefs(graph)
    /\ 2 \in MapsRefs(locals) \cup StoreRefs(store)
    /\ HeldRefs = {0, 1, 2}

(***************************************************************************)
(* SpecIds: one File call over the files of scoped variables, on trees     *)
(* whose identifiers have the host ids 1, 2 and 2^32 + 1: node ids are     *)
(* addresses, and two nodes of one tree may lie 2^32 bytes apart.          *)
(***************************************************************************)
IdNodes == {1, 2, SyntaxNodeID_range + 1}
MaxIdMatches == 3
IdFiles ==
    {[allow_syntax_errors |-> TRUE, stanzas |-> stanzas] :
        stanzas \in {<<DeclareNodeStanza, NameNodeStanza>>,
                     <<DeclareXYStanza, ReadXYStanza>>}}
IdTreesFor(f) ==
    {[has_error |-> FALSE, matches |-> ms] :
        ms \in UNION {{s \in [1 .. len -> {Match(p, node) : p \in 0 .. 1, node \in IdNodes}] :
                          Ascending(s)} :
                      len \in 0 .. MaxIdMatches}}

InitIds ==
    /\ file \in IdFiles
    /\ tree \in IdTreesFor(file)
    /\ graph = Graph_new
    /\ globals = [n \in {9} |-> String("test.py")]
    /\ seed = Graph_new
    /\ mode = "eager"
    /\ phase = "idle"
    /\ result = "none"
    /\ locals = VariableMap_new
    /\ store = <<>>
    /\ lazy_graph = <<>>
    /\ function_parameters = <<>>
    /\ mat = NoMatch
    /\ graph_stmt = 0
    /\ stanza_index = 0
    /\ match_index = 0
    /\ statement_index = 0
    /\ steps = 0
    /\ trace = <<>>
    /\ evaluated = <<>>
    /\ runs = <<>>
    /\ scoped = ScopedVariables_new
    /\ scoped_store = LazyScopedVariables_new

SpecIds == InitIds /\ [][NextFile]_vars

\* The SyntaxNodeRef a host node gets
SyntaxNodeRefOf(node) == Graph_add_syntax_node(Graph_new, node).ref
\* The host nodes in whose matches the call has executed a statement: each
\* statement of the files evaluates the capture @id, which registers the node
Registered == {trace[i][2] : i \in 1 .. Len(trace)}

\* C38: the syntax nodes a call has registered have pairwise different
\* SyntaxNodeRefs and the graph resolves the ref of each to that node; a
\* `let @id.x` executed once for each of two different nodes never fails
\* with DuplicateVariable, as their scoped variables are apart.
C38_DistinctSyntaxNodeRefs ==
    /\ \A a, b \in Registered : a # b => SyntaxNodeRefOf(a) # SyntaxNodeRefOf(b)
    /\ (phase # "idle" \/ result # "none")
          => \A a \in Registered :
                /\ SyntaxNodeRefOf(a) \in DOMAIN graph.syntax_nodes
                /\ graph.syntax_nodes[SyntaxNodeRefOf(a)] = a
    /\ result # "DuplicateVariable"

(***************************************************************************)
(* SpecCalls: one File call over files of one stanza, `node n0` and        *)
(* `attr (n0) name = e`, where e is a function call: plain or nested, with *)
(* parameters the function takes and with parameters it rejects.           *)
(***************************************************************************)
Replace(text, pattern, replacement) == Call("replace", <<text, pattern, replacement>>)
AB == StringConstant("ab")
A == StringConstant("a")
B == StringConstant("b")
\* (replace "aab" (replace "ab" "b" "a") (replace "ab" "a" "b")), the call of
\* the test can_nest_function_calls over the alphabet of the model
NestedReplace == Replace(StringConstant("aab"), Replace(AB, B, A), Replace(AB, A, B))
CallExprs ==
    {NestedReplace,
     Replace(AB, A, B),
     Replace(AB, B, A),
     Replace(Replace(AB, A, B), B, A),
     Replace(AB, Call("source-text", <<id>>), Call("source-text", <<id>>)),
     Replace(IntegerConstant(1), A, B),
     Replace(AB, NodeCall, B),
     Replace(AB, Call("node", <<IntegerConstant(1)>>), B),
     Replace(AB, A, Replace(A, B, IntegerConstant(1))),
     Call("replace", <<AB, A>>),
     Call("replace", <<AB, A, B, Replace(AB, A, B)>>),
     Call("source-text", <<Replace(AB, A, B)>>)}
CallStanza(expr) ==
    Stanza(<<CreateGraphNode(n0), AddGraphNodeAttribute(n0, <<Attribute(2, expr)>>)>>)
CallFiles ==
    {[allow_syntax_errors |-> TRUE, stanzas |-> <<CallStanza(expr)>>] : expr \in CallExprs}

InitCalls ==
    /\ file \in CallFiles
    /\ tree \in VarTreesFor(file)
    /\ graph = Graph_new
    /\ globals = [n \in {9} |-> String("test.py")]
    /\ seed = Graph_new
    /\ mode = "eager"
    /\ phase = "idle"
    /\ result = "none"
    /\ locals = VariableMap_new
    /\ store = <<>>
    /\ lazy_graph = <<>>
    /\ function_parameters = <<>>
    /\ mat = NoMatch
    /\ graph_stmt = 0
    /\ stanza_index = 0
    /\ match_index = 0
    /\ statement_index = 0
    /\ steps = 0
    /\ trace = <<>>
    /\ evaluated = <<>>
    /\ runs = <<>>
    /\ scoped = ScopedVariables_new
    /\ scoped_store = LazyScopedVariables_new

SpecCalls == InitCalls /\ [][NextFile]_vars

\* The calls of the files and the calls among their parameters
RECURSIVE CallsIn(_)
CallsIn(expr) ==
    IF expr[1] # "Call" THEN {}
    ELSE {expr} \cup UNION {CallsIn(expr[3][i]) : i \in 1 .. Len(expr[3])}
AllCalls == UNION {CallsIn(expr) : expr \in CallExprs}

\* A call evaluated with a list of its own: the values of its parameters,
\* from the left to the right, and nothing else, are what the function gets.
RECURSIVE OwnArguments(_, _, _, _), CallWithOwnArguments(_, _)
CallWithOwnArguments(expr, exec) ==
    IF expr[1] # "Call" THEN Expression_evaluate(expr, exec)
    ELSE LET a == OwnArguments(expr[3], 1, <<>>, exec)
         IN  IF a.err # "none" THEN a ELSE Functions_call(expr[2], a.exec, a.value)
OwnArguments(parameters, i, arguments, exec) ==
    IF i > Len(parameters) THEN Ok(exec, arguments)
    ELSE LET r == CallWithOwnArguments(parameters[i], exec)
         IN  IF r.err # "none" THEN r
             ELSE OwnArguments(parameters, i + 1, Append(arguments, r.value), r.exec)

\* What function_parameters may hold when the evaluation of a call starts
Buffers == {<<>>, <<String("a")>>, <<String("b"), Integer(1)>>}
\* The step executes the `attr` statement of the stanza, in an eager call
ExecutesCall ==
    /\ mode = "eager"
    /\ ExecutesStatement
    /\ CurrentStatement[1] = "AddGraphNodeAttribute"

\* C39: in an eager call, every function call, also one that is a parameter
\* of another call, gets the values of its own parameters in their order
\* and no others: the statement ends as the call evaluated with a list of
\* its own does, in its error or in the attribute value and the graph.
\* When the parameters of a call have been evaluated, the call leaves
\* function_parameters as it was before its first parameter, whether the
\* function gives a value or an error.
C39_CallArguments ==
    [][ExecutesCall =>
          LET expr == CurrentStatement[3][1].value
              own == CallWithOwnArguments(expr, Exec)
              n == VariableMap_get(locals, 0).value[2]
          IN  /\ IF own.err # "none"
                 THEN result' = own.err
                 ELSE /\ result' = "none"
                      /\ graph'.graph_nodes[n + 1].attributes.values = <<<<2, own.value>>>>
                      /\ Len(graph'.graph_nodes) = Len(own.exec.graph.graph_nodes)
                      /\ function_parameters' = function_parameters
              /\ \A call \in AllCalls, buffer \in Buffers :
                    LET exec == [Exec EXCEPT !.function_parameters = buffer]
                        r == Call_evaluate(call[2], call[3], exec)
                    IN  OwnArguments(call[3], 1, <<>>, exec).err = "none"
                            => r.exec.function_parameters = buffer
      ]_vars
\* An eager call has executed the stanza of the nested `replace` in two
\* matches: both nodes have the attribute "bbb".
C39_Witness ==
    /\ mode = "eager"
    /\ file.stanzas = <<CallStanza(NestedReplace)>>
    /\ Len(trace) = 4
    /\ result = "none"
    /\ \A i \in 1 .. 2 : graph.graph_nodes[i].attributes.values = <<<<2, String("bbb")>>>>

====
